---- MODULE Spec2Model ----
(***************************************************************************)
(* Entity resolution of the marketing data platform:                       *)
(*   src/deduplication/entity_resolver.py   (EntityResolver)               *)
(*   src/normalizers/company_normalizer.py  (CompanyNormalizer)            *)
(*                                                                         *)
(* A Python str is a sequence of one-character strings; a character        *)
(* outside ASCII is written as its code point ("U+015E").  None and the    *)
(* empty string are both falsy wherever the code tests them, and both are  *)
(* the empty sequence here.  An Optional sub-object is a sequence of       *)
(* length 0 (None) or 1.  Scores are integers: a field score is a          *)
(* percentage 0..100 (fuzz returns an integer percentage), a weight is in  *)
(* hundredths, an overall score and a threshold are in 1/10000.            *)
(*                                                                         *)
(* Spec is a call of resolve_duplicates; NormalizeSpec is normalize_company *)
(* applied to a record and again to its result; MergeSpec is               *)
(* merge_companies applied to two records with either one as the base,     *)
(* FoldSpec merge_companies applied to three records, nested either way;   *)
(* PairSpec is find_duplicates on two records of the test fixture;         *)
(* PhoneSpec is normalize_phone applied to a phone and again to its        *)
(* result; NameSpec is normalize_for_matching applied to a name.           *)
(***************************************************************************)
EXTENDS Integers, Sequences, FiniteSets, TLC

\* ------------------------------------------------------------------ text

\* Letters outside ASCII, by code point.
UG == "U+011E"
LG == "U+011F"
UU == "U+00DC"
LU == "U+00FC"
US == "U+015E"
LS == "U+015F"
UO == "U+00D6"
LO == "U+00F6"
UC == "U+00C7"
LC == "U+00E7"
UI == "U+0130"
LI == "U+0131"
DOT == "U+0307"

AsciiUpper == <<"A","B","C","D","E","F","G","H","I","J","K","L","M",
                "N","O","P","Q","R","S","T","U","V","W","X","Y","Z">>
AsciiLower == <<"a","b","c","d","e","f","g","h","i","j","k","l","m",
                "n","o","p","q","r","s","t","u","v","w","x","y","z">>
Digits == {"0","1","2","3","4","5","6","7","8","9"}

Range(s) == {s[i] : i \in 1..Len(s)}

\* F(e) with e evaluated before the call, as Python evaluates an argument.
Strict(F(_), e) == CHOOSE r \in {F(v) : v \in {e}} : TRUE

IndexOf(c, s) == IF \E i \in 1..Len(s) : s[i] = c
                 THEN CHOOSE i \in 1..Len(s) : s[i] = c
                 ELSE 0

\* str.upper() of one character (a sequence: the result may be longer).
UpperChar(c) ==
  IF IndexOf(c, AsciiLower) > 0 THEN <<AsciiUpper[IndexOf(c, AsciiLower)]>>
  ELSE IF c = LI THEN <<"I">>
  ELSE IF c = LG THEN <<UG>>
  ELSE IF c = LU THEN <<UU>>
  ELSE IF c = LS THEN <<US>>
  ELSE IF c = LO THEN <<UO>>
  ELSE IF c = LC THEN <<UC>>
  ELSE <<c>>

\* str.lower() of one character: U+0130 lowers to "i" followed by U+0307.
LowerChar(c) ==
  IF IndexOf(c, AsciiUpper) > 0 THEN <<AsciiLower[IndexOf(c, AsciiUpper)]>>
  ELSE IF c = UI THEN <<"i", DOT>>
  ELSE IF c = UG THEN <<LG>>
  ELSE IF c = UU THEN <<LU>>
  ELSE IF c = US THEN <<LS>>
  ELSE IF c = UO THEN <<LO>>
  ELSE IF c = UC THEN <<LC>>
  ELSE <<c>>

RECURSIVE Upper(_)
Upper(s) == IF s = <<>> THEN <<>> ELSE UpperChar(Head(s)) \o Upper(Tail(s))

RECURSIVE Lower(_)
Lower(s) == IF s = <<>> THEN <<>> ELSE LowerChar(Head(s)) \o Lower(Tail(s))

IsAscii(c) == c \notin {UG, LG, UU, LU, US, LS, UO, LO, UC, LC, UI, LI, DOT}

IsLetter(c) == \/ IndexOf(c, AsciiUpper) > 0
               \/ IndexOf(c, AsciiLower) > 0
               \/ c \in {UG, LG, UU, LU, US, LS, UO, LO, UC, LC, UI, LI}

\* \w of the re module on str patterns: letters, digits and the underscore.
IsWord(c) == IsLetter(c) \/ c \in Digits \/ c = "_"

\* \s and str.split(): the only whitespace of the model's alphabet is " ".
IsSpace(c) == c = " "

StartsWith(s, p) == Len(p) <= Len(s) /\ SubSeq(s, 1, Len(p)) = p

Drop(s, n) == SubSeq(s, n + 1, Len(s))

Take(s, n) == SubSeq(s, 1, IF n < Len(s) THEN n ELSE Len(s))

\* str.replace(old, new): non-overlapping occurrences, left to right.
RECURSIVE Replace(_, _, _)
Replace(s, old, new) ==
  IF s = <<>> THEN <<>>
  ELSE IF StartsWith(s, old) THEN new \o Replace(Drop(s, Len(old)), old, new)
  ELSE <<Head(s)>> \o Replace(Tail(s), old, new)

\* str.split(sep) for a one-character separator: the list of fields.
RECURSIVE SplitOn(_, _)
SplitOn(s, sep) ==
  IF \A i \in 1..Len(s) : s[i] # sep THEN <<s>>
  ELSE LET k == CHOOSE i \in 1..Len(s) :
                   s[i] = sep /\ \A j \in 1..(i - 1) : s[j] # sep
       IN <<SubSeq(s, 1, k - 1)>> \o SplitOn(Drop(s, k), sep)

\* str.split(): the maximal runs of non-whitespace.
RECURSIVE SplitWs(_)
SplitWs(s) ==
  IF s = <<>> THEN <<>>
  ELSE IF IsSpace(Head(s)) THEN SplitWs(Tail(s))
  ELSE LET n == IF \E i \in 1..Len(s) : IsSpace(s[i])
                THEN (CHOOSE i \in 1..Len(s) :
                        IsSpace(s[i]) /\ \A j \in 1..(i - 1) : ~IsSpace(s[j])) - 1
                ELSE Len(s)
       IN <<SubSeq(s, 1, n)>> \o SplitWs(Drop(s, n))

\* sep.join(parts)
RECURSIVE Join(_, _)
Join(parts, sep) ==
  IF parts = <<>> THEN <<>>
  ELSE IF Len(parts) = 1 THEN parts[1]
  ELSE parts[1] \o sep \o Join(Tail(parts), sep)

\* ' '.join(s.split())
CollapseWs(s) == Join(SplitWs(s), <<" ">>)

\* str.strip()
RECURSIVE Strip(_)
Strip(s) ==
  IF s = <<>> THEN <<>>
  ELSE IF IsSpace(Head(s)) THEN Strip(Tail(s))
  ELSE IF IsSpace(s[Len(s)]) THEN Strip(SubSeq(s, 1, Len(s) - 1))
  ELSE s

\* ------------------------------------------------- regular expressions

\* A pattern is a sequence of elements: a literal or class ("lit", one
\* character of cs), an optional literal ("opt"), \s* ("ws*"), \s+ ("ws+")
\* and \b ("b").
Lit(c) == [k |-> "lit", cs |-> {c}]
Cls(S) == [k |-> "lit", cs |-> S]
Opt(c) == [k |-> "opt", cs |-> {c}]
OptCls(S) == [k |-> "opt", cs |-> S]
WsStar == [k |-> "ws*", cs |-> {}]
WsPlus == [k |-> "ws+", cs |-> {}]
B == [k |-> "b", cs |-> {}]

Lits(s) == [i \in 1..Len(s) |-> Lit(s[i])]

\* Case folding of re.IGNORECASE: simple lower case, where U+0130 lowers to
\* "i" and U+0131 is equivalent to "i".
FoldChar(c) == IF c \in {UI, LI} THEN "i" ELSE LowerChar(c)[1]

LitMatch(c, cs, ic) == IF ic THEN FoldChar(c) \in {FoldChar(x) : x \in cs}
                       ELSE c \in cs

\* \b at position i (between s[i-1] and s[i]).
IsBoundary(s, i) ==
  LET before == i > 1 /\ IsWord(s[i - 1])
      after == i <= Len(s) /\ IsWord(s[i])
  IN before # after

\* The length of the run of whitespace that starts at position i.
RECURSIVE WsRun(_, _)
WsRun(s, i) == IF i <= Len(s) /\ IsSpace(s[i]) THEN 1 + WsRun(s, i + 1) ELSE 0

\* The backtracking match of pat[k..] at position i of s: the position
\* after the match (greedy quantifiers first), or 0 when there is none.
RECURSIVE MatchAt(_, _, _, _, _), TryRuns(_, _, _, _, _, _, _)
MatchAt(pat, ic, k, s, i) ==
  IF k > Len(pat) THEN i
  ELSE LET e == pat[k]
           here == i <= Len(s) /\ LitMatch(s[i], e.cs, ic)
       IN CASE e.k = "lit" -> IF here THEN MatchAt(pat, ic, k + 1, s, i + 1) ELSE 0
            [] e.k = "opt" ->
                 LET r == IF here THEN MatchAt(pat, ic, k + 1, s, i + 1) ELSE 0
                 IN IF r # 0 THEN r ELSE MatchAt(pat, ic, k + 1, s, i)
            [] e.k = "ws*" -> TryRuns(pat, ic, k, s, i, WsRun(s, i), 0)
            [] e.k = "ws+" -> TryRuns(pat, ic, k, s, i, WsRun(s, i), 1)
            [] e.k = "b" -> IF IsBoundary(s, i) THEN MatchAt(pat, ic, k + 1, s, i) ELSE 0
TryRuns(pat, ic, k, s, i, j, least) ==
  IF j < least THEN 0
  ELSE LET r == MatchAt(pat, ic, k + 1, s, i + j)
       IN IF r # 0 THEN r ELSE TryRuns(pat, ic, k, s, i, j - 1, least)

\* re.search(pat, s): is there a match anywhere.
ReSearch(pat, ic, s) == \E i \in 1..(Len(s) + 1) : MatchAt(pat, ic, 1, s, i) # 0

\* re.sub(pat, repl, s) from position i on (no pattern here matches the
\* empty string).
RECURSIVE ReSubFrom(_, _, _, _, _)
ReSubFrom(pat, ic, repl, s, i) ==
  IF i > Len(s) THEN <<>>
  ELSE LET e == MatchAt(pat, ic, 1, s, i)
       IN IF e > i THEN repl \o ReSubFrom(pat, ic, repl, s, e)
          ELSE <<s[i]>> \o ReSubFrom(pat, ic, repl, s, i + 1)

ReSub(pat, ic, repl, s) == ReSubFrom(pat, ic, repl, s, 1)

\* ------------------------------------------------------------ normalizer

\* CompanyNormalizer.company_type_patterns, in declared order.
ANONIM == "Anonim Sirket"
LIMITED == "Limited Sirket"
SAHIS == "Sahis Sirketi"
KOLEKTIF == "Kolektif Sirket"
KOMANDIT == "Komandit Sirket"

II == {UI, "I"}
SIRKET == Lits(<<US, UI, "R", "K", "E", "T">>) \o <<OptCls(II), B>>
STI == <<WsStar>> \o Lits(<<US, "T">>) \o <<Cls(II), Opt("."), B>>

company_type_patterns == <<
  [type |-> ANONIM, patterns |-> <<
     <<B>> \o Lits(<<"A", ".", US>>) \o <<Opt("."), B>>,
     <<B>> \o Lits(<<"A", "N", "O", "N", UI, "M">>) \o <<WsPlus>> \o SIRKET,
     <<B>> \o Lits(<<"A", ".", "S">>) \o <<Opt("."), B>> >>],
  [type |-> LIMITED, patterns |-> <<
     <<B>> \o Lits(<<"L", "T", "D">>) \o <<Opt(".")>> \o STI,
     <<B, Lit("L"), Cls(II), Lit("M"), Cls(II)>> \o Lits(<<"T", "E", "D">>)
         \o <<WsPlus>> \o SIRKET,
     <<B>> \o Lits(<<"L", "T", "D">>) \o <<Opt("."), B>> >>],
  [type |-> SAHIS, patterns |-> <<
     <<B>> \o Lits(<<US, "A", "H", "I", "S">>) \o <<WsPlus>> \o SIRKET,
     <<B>> \o Lits(<<US, "A", "H", "I", "S">>) \o <<B>> >>],
  [type |-> KOLEKTIF, patterns |-> <<
     <<B>> \o Lits(<<"K", "O", "L", "E", "K", "T">>) \o <<Cls(II), Lit("F")>>
         \o <<WsPlus>> \o SIRKET,
     <<B>> \o Lits(<<"K", "O", "L">>) \o <<Opt(".")>> \o STI >>],
  [type |-> KOMANDIT, patterns |-> <<
     <<B>> \o Lits(<<"K", "O", "M", "A", "N", "D">>) \o <<Cls(II), Lit("T")>>
         \o <<WsPlus>> \o SIRKET,
     <<B>> \o Lits(<<"K", "O", "M">>) \o <<Opt(".")>> \o STI >>] >>

\* CompanyNormalizer.abbreviations, in declared order.
abbreviations == <<
  <<<<"T", "I", "C">>, <<"T", UI, "C", "A", "R", "E", "T">>>>,
  <<<<"S", "A", "N">>, <<"S", "A", "N", "A", "Y", UI>>>>,
  <<<<"P", "A", "Z">>, <<"P", "A", "Z", "A", "R", "L", "A", "M", "A">>>>,
  <<<<"M", UU, "H">>, <<"M", UU, "H", "E", "N", "D", UI, "S", "L", UI, "K">>>>,
  <<<<UI, "N", US>>, <<UI, "N", US, "A", "A", "T">>>>,
  <<<<"B", UI, "L", UI, US>>, <<"B", UI, "L", UI, US, UI, "M">>>>,
  <<<<"T", "E", "K">>, <<"T", "E", "K", "N", "O", "L", "O", "J", UI>>>>,
  <<<<"T", "U", "R", "Z">>, <<"T", "U", "R", UI, "Z", "M">>>>,
  <<<<"L", "O", "J">>, <<"L", "O", "J", UI, "S", "T", UI, "K">>>>,
  <<<<UI, "T", "H">>, <<UI, "T", "H", "A", "L", "A", "T">>>>,
  <<<<UI, "H", "R">>, <<UI, "H", "R", "A", "C", "A", "T">>>> >>

\* CompanyNormalizer.turkish_chars, in declared order.
turkish_chars == <<
  <<LI, "i">>, <<UI, "I">>, <<LG, "g">>, <<UG, "G">>, <<LU, "u">>, <<UU, "U">>,
  <<LS, "s">>, <<US, "S">>, <<LO, "o">>, <<UO, "O">>, <<LC, "c">>, <<UC, "C">> >>

\* The loop over abbreviations: re.sub(r'\b' + abbr + r'\b', full, name).
RECURSIVE ExpandAbbreviations(_, _)
ExpandAbbreviations(name, k) ==
  IF k > Len(abbreviations) THEN name
  ELSE Strict(LAMBDA v : ExpandAbbreviations(v, k + 1),
              ReSub(<<B>> \o Lits(abbreviations[k][1]) \o <<B>>, FALSE,
                    abbreviations[k][2], name))

\* All patterns of all company types, in iteration order.
RECURSIVE AllPatterns(_)
AllPatterns(k) ==
  IF k > Len(company_type_patterns) THEN <<>>
  ELSE company_type_patterns[k].patterns \o AllPatterns(k + 1)

\* The loop that removes the company type suffixes.
RECURSIVE RemoveCompanyTypes(_, _)
RemoveCompanyTypes(name, pats) ==
  IF pats = <<>> THEN name
  ELSE Strict(LAMBDA v : RemoveCompanyTypes(v, Tail(pats)),
              ReSub(Head(pats), TRUE, <<>>, name))

\* re.sub(r'[^\w\s&-]', ' ', name)
RemovePunctuation(name) ==
  [i \in 1..Len(name) |->
     IF IsWord(name[i]) \/ IsSpace(name[i]) \/ name[i] \in {"&", "-"}
     THEN name[i] ELSE " "]

normalize_company_name(name) ==
  IF name = <<>> THEN <<>>
  ELSE LET upper == Strict(LAMBDA v : CollapseWs(v), Upper(name))
           expanded == Strict(LAMBDA v : ExpandAbbreviations(v, 1), upper)
           removed == Strict(LAMBDA v : RemoveCompanyTypes(v, AllPatterns(1)), expanded)
           spaced == Strict(LAMBDA v : CollapseWs(RemovePunctuation(v)), removed)
       IN Strict(LAMBDA v : Strip(v), spaced)

\* The loop name = name.replace(tr_char.upper(), ascii_char).
RECURSIVE ReplaceTurkish(_, _)
ReplaceTurkish(name, k) ==
  IF k > Len(turkish_chars) THEN name
  ELSE Strict(LAMBDA v : ReplaceTurkish(v, k + 1),
              Replace(name, UpperChar(turkish_chars[k][1]), <<turkish_chars[k][2]>>))

IsAZ09(c) == IndexOf(c, AsciiUpper) > 0 \/ c \in Digits

normalize_for_matching(name) ==
  LET replaced == Strict(LAMBDA v : ReplaceTurkish(v, 1), normalize_company_name(name))
  IN Strict(LAMBDA v : SelectSeq(v, IsAZ09), replaced)

\* The first company type, in declared order, one of whose patterns is found.
RECURSIVE ExtractFrom(_, _)
ExtractFrom(name_upper, k) ==
  IF k > Len(company_type_patterns) THEN <<>>
  ELSE IF \E j \in 1..Len(company_type_patterns[k].patterns) :
            ReSearch(company_type_patterns[k].patterns[j], TRUE, name_upper)
       THEN <<company_type_patterns[k].type>>
       ELSE ExtractFrom(name_upper, k + 1)

extract_company_type(name) == ExtractFrom(Upper(name), 1)

IsDigit(c) == c \in Digits

\* normalize_phone when the branch for a leading "0" keeps that digit.
normalize_phone_keep_zero(phone) ==
  IF phone = <<>> THEN <<>>
  ELSE LET d == SelectSeq(phone, IsDigit)
       IN IF StartsWith(d, <<"9", "0">>) THEN <<"+">> \o d
          ELSE IF StartsWith(d, <<"0">>) THEN <<"+", "9", "0">> \o d
          ELSE IF Len(d) = 10 THEN <<"+", "9", "0">> \o d
          ELSE IF ~StartsWith(d, <<"+">>) THEN <<"+", "9", "0">> \o d
          ELSE d

normalize_phone(phone) ==
  IF phone = <<>> THEN <<>>
  ELSE LET d == SelectSeq(phone, IsDigit)
       IN IF StartsWith(d, <<"9", "0">>) THEN <<"+">> \o d
          ELSE IF StartsWith(d, <<"0">>) THEN <<"+", "9", "0">> \o Tail(d)
          ELSE IF Len(d) = 10 THEN <<"+", "9", "0">> \o d
          ELSE IF ~StartsWith(d, <<"+">>) THEN <<"+", "9", "0">> \o d
          ELSE d

normalize_email(email) ==
  IF email = <<>> THEN <<>>
  ELSE LET e == Replace(Strip(Lower(email)),
                        <<"m", "a", "i", "l", "t", "o", ":">>, <<>>)
       IN IF "@" \notin Range(e) \/ "." \notin Range(SplitOn(e, "@")[2])
          THEN <<>>
          ELSE e

normalize_url(url) ==
  IF url = <<>> THEN <<>>
  ELSE LET u == Strip(Lower(url))
           http == <<"h", "t", "t", "p", ":", "/", "/">>
           https == <<"h", "t", "t", "p", "s", ":", "/", "/">>
           v == IF StartsWith(u, http) \/ StartsWith(u, https) THEN u ELSE https \o u
           RECURSIVE RStrip(_)
           RStrip(x) == IF x # <<>> /\ x[Len(x)] = "/"
                        THEN RStrip(SubSeq(x, 1, Len(x) - 1)) ELSE x
       IN Replace(RStrip(v), <<":", "/", "/", "w", "w", "w", ".">>, <<":", "/", "/">>)

\* normalize_address.address_abbr, in declared order.
address_abbr == <<
  <<<<"M", "a", "h", ".">>, <<"M", "a", "h", "a", "l", "l", "e", "s", "i">>>>,
  <<<<"C", "a", "d", ".">>, <<"C", "a", "d", "d", "e", "s", "i">>>>,
  <<<<"S", "o", "k", ".">>, <<"S", "o", "k", "a", "k">>>>,
  <<<<"A", "p", "t", ".">>, <<"A", "p", "a", "r", "t", "m", "a", "n", LI>>>>,
  <<<<"B", "l", "o", "k">>, <<"B", "l", "o", "k">>>>,
  <<<<"K", "a", "t">>, <<"K", "a", "t">>>>,
  <<<<"N", "o", ":">>, <<"N", "o", ":">>>> >>

RECURSIVE ExpandAddress(_, _)
ExpandAddress(address, k) ==
  IF k > Len(address_abbr) THEN address
  ELSE Strict(LAMBDA v : ExpandAddress(v, k + 1),
              Replace(address, address_abbr[k][1], address_abbr[k][2]))

normalize_address(address) ==
  IF address = <<>> THEN <<>>
  ELSE Strict(LAMBDA v : Strip(ExpandAddress(v, 1)), CollapseWs(address))

\* str.title(): a cased character is lowered after a cased character and
\* titlecased otherwise; U+0307 is not cased.
RECURSIVE TitleFrom(_, _)
TitleFrom(s, previous_is_cased) ==
  IF s = <<>> THEN <<>>
  ELSE (IF previous_is_cased THEN LowerChar(Head(s)) ELSE UpperChar(Head(s)))
       \o TitleFrom(Tail(s), IsLetter(Head(s)))

Title(s) == TitleFrom(s, FALSE)

\* normalize_city.city_mappings, in declared order.
city_mappings == <<
  <<<<"I","s","t","a","n","b","u","l">>, <<UI,"s","t","a","n","b","u","l">>>>,
  <<<<"A","n","k","a","r","a">>, <<"A","n","k","a","r","a">>>>,
  <<<<"I","z","m","i","r">>, <<UI,"z","m","i","r">>>>,
  <<<<"B","u","r","s","a">>, <<"B","u","r","s","a">>>>,
  <<<<"A","n","t","a","l","y","a">>, <<"A","n","t","a","l","y","a">>>>,
  <<<<"A","d","a","n","a">>, <<"A","d","a","n","a">>>>,
  <<<<"K","o","n","y","a">>, <<"K","o","n","y","a">>>>,
  <<<<"G","a","z","i","a","n","t","e","p">>, <<"G","a","z","i","a","n","t","e","p">>>>,
  <<<<"K","o","c","a","e","l","i">>, <<"K","o","c","a","e","l","i">>>>,
  <<<<"K","a","y","s","e","r","i">>, <<"K","a","y","s","e","r","i">>>> >>

\* The loop over city_mappings: the first variant that equals the city when
\* both are uppercased gives the result.
RECURSIVE MapCity(_, _)
MapCity(city, k) ==
  IF k > Len(city_mappings) THEN city
  ELSE IF Upper(city) = Upper(city_mappings[k][1]) THEN city_mappings[k][2]
  ELSE MapCity(city, k + 1)

normalize_city(city) ==
  IF city = <<>> THEN <<>>
  ELSE Strict(LAMBDA v : MapCity(v, 1), Title(Strip(city)))

\* [f(x) for x in list if f(x)] with f one of the normalize functions.
NormalizeEach(list, f(_)) ==
  LET normalized == [i \in 1..Len(list) |-> f(list[i])]
  IN SelectSeq(normalized, LAMBDA v : v # <<>>)

\* normalize_company: the record with every field normalized.  The company
\* type is extracted from identity.legal_name after it was replaced by its
\* normalized form.
normalize_company(company) ==
  LET legal_name == normalize_company_name(company.identity.legal_name)
      identity ==
        [company.identity EXCEPT
           !.legal_name = legal_name,
           !.trade_name = IF @ # <<>> THEN normalize_company_name(@) ELSE @,
           !.city = IF @ # <<>> THEN normalize_city(@) ELSE @,
           !.company_type = IF @ = <<>> THEN extract_company_type(legal_name) ELSE @]
      web_presence ==
        IF company.web_presence = <<>> THEN <<>>
        ELSE <<[company.web_presence[1] EXCEPT
                  !.website_url = IF @ # <<>> THEN normalize_url(@) ELSE @,
                  !.social_links =
                     [platform \in DOMAIN @ |->
                        IF @[platform] # <<>> THEN normalize_url(@[platform])
                        ELSE @[platform]]]>>
      contacts ==
        IF company.contacts = <<>> THEN <<>>
        ELSE <<[company.contacts[1] EXCEPT
                  !.emails_public = NormalizeEach(@, normalize_email),
                  !.phones_public = NormalizeEach(@, normalize_phone),
                  !.address_public = IF @ # <<>> THEN normalize_address(@) ELSE @]>>
  IN [company EXCEPT !.identity = identity,
                     !.web_presence = web_presence,
                     !.contacts = contacts]

\* ------------------------------------------------------------ fuzzywuzzy

Max(a, b) == IF a >= b THEN a ELSE b

\* One row of the longest-common-subsequence table: the entries j..Len(b)
\* of the row of character x, given the row above and the entry to the left.
RECURSIVE LcsRow(_, _, _, _, _)
LcsRow(prev, x, b, j, left) ==
  IF j > Len(b) THEN <<>>
  ELSE LET diag == IF j = 1 THEN 0 ELSE prev[j - 1]
           v == IF x = b[j] THEN diag + 1 ELSE Max(prev[j], left)
       IN Strict(LAMBDA w : <<w>> \o LcsRow(prev, x, b, j + 1, w), v)

RECURSIVE LcsRows(_, _, _, _)
LcsRows(prev, a, b, i) ==
  IF i > Len(a) THEN prev
  ELSE Strict(LAMBDA row : LcsRows(row, a, b, i + 1), LcsRow(prev, a[i], b, 1, 0))

Lcs(a, b) == IF b = <<>> THEN 0
             ELSE LcsRows([j \in 1..Len(b) |-> 0], a, b, 1)[Len(b)]

\* int(round(100 * 2 * m / t)): Python rounds a tie to the even integer.
RoundedPercent(m, t) ==
  LET q == (200 * m) \div t
      r == (200 * m) % t
  IN IF 2 * r < t THEN q
     ELSE IF 2 * r > t THEN q + 1
     ELSE IF q % 2 = 0 THEN q ELSE q + 1

\* fuzz.ratio: 100 for equal strings, 0 when one is empty, otherwise the
\* Levenshtein ratio 2 * lcs / (len1 + len2) as a rounded percentage.
FuzzRatio(s1, s2) ==
  IF s1 = s2 THEN 100
  ELSE IF s1 = <<>> \/ s2 = <<>> THEN 0
  ELSE RoundedPercent(Lcs(s1, s2), Len(s1) + Len(s2))

\* The code point order of the characters a processed token is made of.
CodeOrder == <<"0","1","2","3","4","5","6","7","8","9","_">> \o AsciiLower

RECURSIVE StrLess(_, _)
StrLess(s, t) ==
  IF t = <<>> THEN FALSE
  ELSE IF s = <<>> THEN TRUE
  ELSE IF Head(s) = Head(t) THEN StrLess(Tail(s), Tail(t))
  ELSE IndexOf(Head(s), CodeOrder) < IndexOf(Head(t), CodeOrder)

\* sorted(tokens)
RECURSIVE SortTokens(_)
SortTokens(tokens) ==
  IF tokens = <<>> THEN <<>>
  ELSE LET k == CHOOSE i \in 1..Len(tokens) :
                  \A j \in 1..Len(tokens) : ~StrLess(tokens[j], tokens[i])
       IN <<tokens[k]>> \o
          SortTokens([i \in 1..(Len(tokens) - 1) |->
                        IF i < k THEN tokens[i] ELSE tokens[i + 1]])

\* utils.full_process with force_ascii: drop the characters outside ASCII,
\* turn every non-word character into a space, lower, strip.
FullProcess(s) ==
  LET ascii == SelectSeq(s, IsAscii)
      spaced == [i \in 1..Len(ascii) |-> IF IsWord(ascii[i]) THEN ascii[i] ELSE " "]
  IN Strict(LAMBDA v : Strip(Lower(v)), spaced)

ProcessAndSort(s) == Strip(Join(SortTokens(SplitWs(FullProcess(s))), <<" ">>))

\* fuzz.token_sort_ratio
FuzzTokenSortRatio(s1, s2) ==
  Strict(LAMBDA a : Strict(LAMBDA b : FuzzRatio(a, b), ProcessAndSort(s2)),
         ProcessAndSort(s1))

\* -------------------------------------------------------------- resolver

\* EntityResolver.field_weights, in hundredths, in insertion order.
WDomain == 35
WLegalName == 25
WPhone == 15
WEmail == 15
WAddress == 10

Fields == <<"domain", "legal_name", "phone", "email", "address">>

field_weights == [domain |-> WDomain, legal_name |-> WLegalName, phone |-> WPhone,
                  email |-> WEmail, address |-> WAddress]

\* The field score when the fuzzywuzzy ratio (0..100) is returned as it is,
\* without the division by 100.0.
calculate_field_similarity_raw(value1, value2, method) ==
  IF value1 = <<>> \/ value2 = <<>> THEN 0
  ELSE IF method = "exact" THEN (IF Lower(value1) = Lower(value2) THEN 100 ELSE 0)
  ELSE IF method = "fuzzy" THEN 100 * FuzzRatio(Lower(value1), Lower(value2))
  ELSE IF method = "token" THEN 100 * FuzzTokenSortRatio(Lower(value1), Lower(value2))
  ELSE 0

\* A field score in percent.
calculate_field_similarity(value1, value2, method) ==
  IF value1 = <<>> \/ value2 = <<>> THEN 0
  ELSE IF method = "exact" THEN (IF Lower(value1) = Lower(value2) THEN 100 ELSE 0)
  ELSE IF method = "fuzzy" THEN FuzzRatio(Lower(value1), Lower(value2))
  ELSE IF method = "token" THEN FuzzTokenSortRatio(Lower(value1), Lower(value2))
  ELSE 0

\* "if company.web_presence and company.web_presence.website_url"
HasWebsite(c) == c.web_presence # <<>> /\ c.web_presence[1].website_url # <<>>

\* str(url).split('/')[2].replace('www.', '')
Domain(url) == Replace(SplitOn(url, "/")[3], <<"w", "w", "w", ".">>, <<>>)

\* The scores appended by the two nested loops over the phone lists.
PhoneScores(c1, c2) ==
  IF c1.contacts = <<>> \/ c2.contacts = <<>> THEN {}
  ELSE LET p1 == c1.contacts[1].phones_public
           p2 == c2.contacts[1].phones_public
       IN {calculate_field_similarity(normalize_phone(p1[i]), normalize_phone(p2[j]),
                                      "exact") :
             <<i, j>> \in {x \in (1..Len(p1)) \X (1..Len(p2)) :
                             /\ normalize_phone(p1[x[1]]) # <<>>
                             /\ normalize_phone(p2[x[2]]) # <<>>}}

\* The scores appended by the two nested loops over the email lists.
EmailScores(c1, c2) ==
  IF c1.contacts = <<>> \/ c2.contacts = <<>> THEN {}
  ELSE LET e1 == c1.contacts[1].emails_public
           e2 == c2.contacts[1].emails_public
       IN {IF SplitOn(normalize_email(e1[x[1]]), "@")[2]
               = SplitOn(normalize_email(e2[x[2]]), "@")[2] THEN 100 ELSE 0 :
             x \in {y \in (1..Len(e1)) \X (1..Len(e2)) :
                      /\ normalize_email(e1[y[1]]) # <<>>
                      /\ normalize_email(e2[y[2]]) # <<>>}}

SetMax(S) == IF S = {} THEN 0 ELSE CHOOSE m \in S : \A x \in S : x <= m

HasAddress(c) == c.contacts # <<>> /\ c.contacts[1].address_public # <<>>

\* The field_scores dict when only the first record's name goes through
\* normalize_company_name.
FieldScoresOneSided(company1, company2) ==
  [domain |->
     IF HasWebsite(company1) /\ HasWebsite(company2)
     THEN calculate_field_similarity(Domain(company1.web_presence[1].website_url),
                                     Domain(company2.web_presence[1].website_url),
                                     "exact")
     ELSE 0,
   legal_name |->
     calculate_field_similarity(normalize_company_name(company1.identity.legal_name),
                                company2.identity.legal_name,
                                "token"),
   phone |-> SetMax(PhoneScores(company1, company2)),
   email |-> SetMax(EmailScores(company1, company2)),
   address |->
     IF HasAddress(company1) /\ HasAddress(company2)
     THEN calculate_field_similarity(
            normalize_address(company1.contacts[1].address_public),
            normalize_address(company2.contacts[1].address_public), "fuzzy")
     ELSE 0]

\* The field_scores dict of calculate_company_similarity.
FieldScores(company1, company2) ==
  [domain |->
     IF HasWebsite(company1) /\ HasWebsite(company2)
     THEN calculate_field_similarity(Domain(company1.web_presence[1].website_url),
                                     Domain(company2.web_presence[1].website_url),
                                     "exact")
     ELSE 0,
   legal_name |->
     calculate_field_similarity(normalize_company_name(company1.identity.legal_name),
                                normalize_company_name(company2.identity.legal_name),
                                "token"),
   phone |-> SetMax(PhoneScores(company1, company2)),
   email |-> SetMax(EmailScores(company1, company2)),
   address |->
     IF HasAddress(company1) /\ HasAddress(company2)
     THEN calculate_field_similarity(
            normalize_address(company1.contacts[1].address_public),
            normalize_address(company2.contacts[1].address_public), "fuzzy")
     ELSE 0]

\* The weighted average over the entries of field_scores, in 1/10000:
\* total_score / total_weight, 0 when the total weight is 0.  A score
\* sum(score * weight) / sum(weight) is on the 1/10000 grid because the
\* weights of the five fields sum to 100.
WeightedAverage(field_scores) ==
  LET RECURSIVE Sum(_, _)
      Sum(k, withScore) ==
        IF k > Len(Fields) THEN 0
        ELSE (IF withScore THEN field_scores[Fields[k]] * field_weights[Fields[k]]
              ELSE field_weights[Fields[k]]) + Sum(k + 1, withScore)
      total_score == Sum(1, TRUE)
      total_weight == Sum(1, FALSE)
  IN IF total_weight > 0 THEN (total_score * 100) \div total_weight ELSE 0

\* (final_score, field_scores)
calculate_company_similarity(company1, company2) ==
  LET field_scores == FieldScores(company1, company2)
  IN [score |-> WeightedAverage(field_scores), field_scores |-> field_scores]

\* The keys list of create_blocking_key, joined with '|'.
create_blocking_key(company) ==
  LET domain_key ==
        IF HasWebsite(company)
        THEN <<<<"d", "o", "m", "a", "i", "n", ":">>
                 \o Domain(company.web_presence[1].website_url)>>
        ELSE <<>>
      name_normalized == normalize_for_matching(company.identity.legal_name)
      name_key ==
        IF Len(name_normalized) >= 3
        THEN <<<<"n", "a", "m", "e", ":">> \o Take(name_normalized, 3)>>
        ELSE <<>>
      phone_key ==
        IF company.contacts # <<>> /\ company.contacts[1].phones_public # <<>>
        THEN LET phone_normalized ==
                   normalize_phone(company.contacts[1].phones_public[1])
             IN IF Len(phone_normalized) >= 6
                THEN <<<<"p", "h", "o", "n", "e", ":">> \o Take(phone_normalized, 6)>>
                ELSE <<>>
        ELSE <<>>
      city_key ==
        IF company.identity.city # <<>>
        THEN <<<<"c", "i", "t", "y", ":">> \o Upper(company.identity.city)>>
        ELSE <<>>
      keys == domain_key \o name_key \o phone_key \o city_key
  IN IF keys # <<>> THEN Join(keys, <<"|">>)
     ELSE <<"u", "n", "k", "n", "o", "w", "n">>

\* ------------------------------------------------------------ the inputs

\* The longest input list.
MaxLen == 4

\* A UnifiedCompany, with the defaults of the schema for what is not given.
Company(legal_name, website_url, emails, phones, address) ==
  [id |-> <<>>,
   identity |-> [legal_name |-> legal_name, trade_name |-> <<>>,
                 company_type |-> <<>>, city |-> <<>>, district |-> <<>>],
   web_presence |-> IF website_url = <<>> THEN <<>>
                    ELSE <<[website_url |-> website_url, social_links |-> <<>>,
                            google_places |-> <<>>]>>,
   contacts |-> IF emails = <<>> /\ phones = <<>> /\ address = <<>> THEN <<>>
                ELSE <<[emails_public |-> emails, phones_public |-> phones,
                        address_public |-> address]>>,
   business_meta |-> <<>>,
   provenance |-> <<>>,
   confidence_score |-> 1024]

UrlA == <<"h","t","t","p",":","/","/","a",".","c","o">>
UrlWwwA == <<"h","t","t","p","s",":","/","/","w","w","w",".","a",".","c","o">>
MailInfo == <<"i","@","a",".","c","o">>
MailContact == <<"c","@","a",".","c","o">>
Phone3 == <<"0","2","1","2","3">>
Phone4 == <<"0","2","1","2","4">>
Phone4Intl == <<"+","9","0","2","1","2","4">>
PhoneShort == <<"1","2">>
Street == <<"a","b"," ","C","a","d",".">>

\* The records an input list is made of.  The first four share one
\* blocking key; the fifth has no contacts; the sixth has nothing a blocking
\* key is made of (no website, a name shorter than three characters, a
\* phone shorter than six, no city).
RecOne == Company(<<"A","B","C">>, UrlA, <<MailInfo>>, <<Phone3>>, Street)
RecBoth == Company(<<"A","B","C"," ","L","T","D">>, UrlWwwA, <<MailContact>>,
                   <<Phone3, Phone4>>, Street)
RecOther == Company(<<"a","b","c"," ","A",".",US,".">>, UrlA, <<MailInfo>>,
                    <<Phone4Intl>>, Street)
RecLong == Company(<<"A","B","C","D">>, UrlA, <<MailInfo>>, <<Phone4Intl>>, Street)
RecBare == Company(<<"A","B","C">>, UrlA, <<>>, <<>>, <<>>)
RecNone == Company(<<"A","B">>, <<>>, <<MailInfo>>, <<PhoneShort>>, Street)

CatalogueSeq == <<RecOne, RecBoth, RecOther, RecLong, RecBare, RecNone>>

Catalogue == Range(CatalogueSeq)

\* The thresholds a resolver is constructed with, in 1/10000; the first of
\* each set is the default of __init__.
ExactThresholds == {9500, 10000}
ReviewThresholds == {8500}
MinThresholds == {7000, 8500, 6000}

\* Thresholds that are not in the order min <= review <= exact: __init__
\* stores whatever it is given.
DisorderedThresholds == {<<8500, 9500, 7000>>}

\* <<exact_threshold, review_threshold, min_threshold>> of a resolver.
ThresholdConfigs ==
  (ExactThresholds \X ReviewThresholds \X MinThresholds) \cup DisorderedThresholds

\* How the records of an input list are identified: none carries an id
\* ("none"), the first carries the id "1", which is also str(1) ("first"),
\* each carries its own id ("all").
IdPatterns == {"none", "first", "all"}

ExternalIds == <<<<"a">>, <<"b">>, <<"c">>, <<"d">>, <<"e">>, <<"f">>>>

\* The input list: record i (from 1) of the chosen records, with its id and
\* with one provenance entry naming its source, here its position.
InputList(recs, ids) ==
  [i \in 1..Len(recs) |->
     [recs[i] EXCEPT
        !.id = IF ids = "all" THEN ExternalIds[i]
               ELSE IF ids = "first" /\ i = 1 THEN <<"1">>
               ELSE <<>>,
        !.provenance = <<i - 1>>]]

Lists == UNION {[1..n -> Catalogue] : n \in 0..MaxLen}

\* What create_blocking_key and calculate_company_similarity read of a record.
Signals(company) ==
  [identity |-> company.identity, web_presence |-> company.web_presence,
   contacts |-> company.contacts]

\* The values of create_blocking_key and calculate_company_similarity on the
\* records a run draws its input from: both are pure, so a run reads them
\* from these tables.
VARIABLES
  blocking_keys,     \* create_blocking_key of each record
  similarities       \* calculate_company_similarity of each pair of records

\* One company of the test fixture, cut down to short strings, written in
\* different ways, and another company with the same phone.
PairRecord(legal_name, city, website_url, email, phone) ==
  [Company(legal_name, website_url, email, <<phone>>, <<>>)
     EXCEPT !.identity.city = city]

NameShort == <<"A","B","C"," ","A",".",US,".">>
NameFull ==
  <<"A","B","C"," ","A","N","O","N",UI,"M"," ",US,UI,"R","K","E","T",UI>>
NameInc == <<"A","B","C"," ","I","n","c",".">>
CityDotted == <<UI,"s","t","a","n","b","u","l">>
CityPlain == <<"I","s","t","a","n","b","u","l">>
UrlB == <<"h","t","t","p",":","/","/","b",".","c","o">>
Phone3Intl == <<"+","9","0","2","1","2","3">>

PairCatalogueSeq ==
  <<PairRecord(NameShort, CityDotted, UrlWwwA, <<MailInfo>>, Phone3Intl),
    PairRecord(NameFull, CityPlain, UrlA, <<MailContact>>, Phone3),
    PairRecord(NameFull, CityDotted, UrlA, <<MailContact>>, Phone3),
    PairRecord(NameShort, CityPlain, UrlWwwA, <<MailInfo>>, Phone3Intl),
    PairRecord(NameInc, CityDotted, UrlB, <<>>, Phone3Intl),
    PairRecord(NameShort, CityDotted, UrlB, <<MailInfo>>, Phone3),
    PairRecord(NameShort, <<>>, UrlA, <<MailInfo>>, Phone4),
    PairRecord(NameFull, <<>>, UrlWwwA, <<MailContact>>, Phone3)>>

PairCatalogue == Range(PairCatalogueSeq)

\* Every record a run can be given.
Records == CatalogueSeq \o PairCatalogueSeq

\* The place in the tables of the record a company was drawn from.
CatalogueIndex(company) ==
  CHOOSE k \in 1..Len(Records) : Signals(Records[k]) = Signals(company)

\* create_blocking_key of every record of the catalogue.
BlockingKeys ==
  [k \in 1..Len(CatalogueSeq) |-> create_blocking_key(Signals(CatalogueSeq[k]))]

\* self.create_blocking_key(company), looked up.
BlockingKeyOf(company) == blocking_keys[CatalogueIndex(company)]

\* calculate_company_similarity of every pair of records of the catalogue.
Similarities ==
  [k1 \in 1..Len(CatalogueSeq) |->
     [k2 \in 1..Len(CatalogueSeq) |->
        calculate_company_similarity(Signals(CatalogueSeq[k1]),
                                     Signals(CatalogueSeq[k2]))]]

\* self.calculate_company_similarity(company1, company2), looked up.
SimilarityOf(company1, company2) ==
  similarities[CatalogueIndex(company1)][CatalogueIndex(company2)]

\* str(idx)
RECURSIVE Str(_)
Str(n) ==
  LET digit(d) == <<"0","1","2","3","4","5","6","7","8","9">>[d + 1]
  IN IF n < 10 THEN <<digit(n)>> ELSE Str(n \div 10) \o <<digit(n % 10)>>

\* "company.id or str(idx)", idx counting from 0 as enumerate does.
CompanyId(company, idx) == IF company.id # <<>> THEN company.id ELSE Str(idx)

\* The blocking_index dict after the first loop of find_duplicates: the
\* keys in insertion order, each with the positions filed under it.
RECURSIVE BlockingIndex(_, _, _)
BlockingIndex(companies, i, blocking_index) ==
  IF i >= Len(companies) THEN blocking_index
  ELSE LET blocking_key == BlockingKeyOf(companies[i + 1])
           at == {k \in 1..Len(blocking_index) : blocking_index[k].key = blocking_key}
           added ==
             IF at = {}
             THEN Append(blocking_index, [key |-> blocking_key, members |-> <<i>>])
             ELSE [k \in 1..Len(blocking_index) |->
                     IF k \in at
                     THEN [blocking_index[k] EXCEPT !.members = Append(@, i)]
                     ELSE blocking_index[k]]
       IN Strict(LAMBDA v : BlockingIndex(companies, i + 1, v), added)

\* The pairs (idx1, idx2) the nested loops over one block visit, in order.
BlockPairs(members) ==
  LET RECURSIVE From(_, _)
      From(i, j) ==
        IF i > Len(members) THEN <<>>
        ELSE IF j > Len(members) THEN From(i + 1, i + 2)
        ELSE <<<<members[i], members[j]>>>> \o From(i, j + 1)
  IN From(1, 2)

\* The pairs the loops over all blocks visit, in order.
RECURSIVE AllPairs(_)
AllPairs(blocking_index) ==
  IF blocking_index = <<>> THEN <<>>
  ELSE BlockPairs(Head(blocking_index).members) \o AllPairs(Tail(blocking_index))

\* The CompanyMatch when the review band is open at its lower end
\* (review_threshold < score < exact_threshold).
CompanyMatchOpenBand(companies, idx1, idx2, sim, exact_threshold, review_threshold) ==
  [company_a_id |-> CompanyId(companies[idx1 + 1], idx1),
   company_b_id |-> CompanyId(companies[idx2 + 1], idx2),
   match_score |-> sim.score,
   match_fields |-> sim.field_scores,
   match_type |-> IF sim.score >= exact_threshold THEN "exact" ELSE "fuzzy",
   requires_review |-> review_threshold < sim.score /\ sim.score < exact_threshold]

\* The CompanyMatch built for a scored pair.
CompanyMatch(companies, idx1, idx2, sim, exact_threshold, review_threshold) ==
  [company_a_id |-> CompanyId(companies[idx1 + 1], idx1),
   company_b_id |-> CompanyId(companies[idx2 + 1], idx2),
   match_score |-> sim.score,
   match_fields |-> sim.field_scores,
   match_type |-> IF sim.score >= exact_threshold THEN "exact" ELSE "fuzzy",
   requires_review |-> review_threshold <= sim.score /\ sim.score < exact_threshold]

\* The loop body when the test is "score > self.min_threshold".
ScorePairStrict(companies, st, idx1, idx2, exact_threshold, review_threshold, min_threshold) ==
  LET pair_key == IF idx1 <= idx2 THEN <<idx1, idx2>> ELSE <<idx2, idx1>>
      sim == SimilarityOf(companies[idx1 + 1], companies[idx2 + 1])
  IN IF pair_key \in st.processed_pairs THEN st
     ELSE [processed_pairs |-> st.processed_pairs \cup {pair_key},
           scored |-> Append(st.scored, [idx1 |-> idx1, idx2 |-> idx2, sim |-> sim]),
           matches |->
             IF sim.score > min_threshold
             THEN Append(st.matches,
                         CompanyMatch(companies, idx1, idx2, sim,
                                      exact_threshold, review_threshold))
             ELSE st.matches]

\* The loop body when the comparison is turned round
\* ("score <= self.min_threshold").
ScorePairInverted(companies, st, idx1, idx2, exact_threshold, review_threshold, min_threshold) ==
  LET pair_key == IF idx1 <= idx2 THEN <<idx1, idx2>> ELSE <<idx2, idx1>>
      sim == SimilarityOf(companies[idx1 + 1], companies[idx2 + 1])
  IN IF pair_key \in st.processed_pairs THEN st
     ELSE [processed_pairs |-> st.processed_pairs \cup {pair_key},
           scored |-> Append(st.scored, [idx1 |-> idx1, idx2 |-> idx2, sim |-> sim]),
           matches |->
             IF sim.score <= min_threshold
             THEN Append(st.matches,
                         CompanyMatch(companies, idx1, idx2, sim,
                                      exact_threshold, review_threshold))
             ELSE st.matches]

\* The body of the innermost loop of find_duplicates for the pair
\* (idx1, idx2): st holds processed_pairs, the calls of
\* calculate_company_similarity made so far with what each returned (scored)
\* and matches.
ScorePair(companies, st, idx1, idx2, exact_threshold, review_threshold, min_threshold) ==
  LET pair_key == IF idx1 <= idx2 THEN <<idx1, idx2>> ELSE <<idx2, idx1>>
      sim == SimilarityOf(companies[idx1 + 1], companies[idx2 + 1])
  IN IF pair_key \in st.processed_pairs THEN st
     ELSE [processed_pairs |-> st.processed_pairs \cup {pair_key},
           scored |-> Append(st.scored, [idx1 |-> idx1, idx2 |-> idx2, sim |-> sim]),
           matches |->
             IF sim.score >= min_threshold
             THEN Append(st.matches,
                         CompanyMatch(companies, idx1, idx2, sim,
                                      exact_threshold, review_threshold))
             ELSE st.matches]

RECURSIVE ScorePairs(_, _, _, _, _, _)
ScorePairs(companies, pairs, st, exact_threshold, review_threshold, min_threshold) ==
  IF pairs = <<>> THEN st
  ELSE Strict(LAMBDA v : ScorePairs(companies, Tail(pairs), v, exact_threshold,
                                    review_threshold, min_threshold),
              ScorePair(companies, st, Head(pairs)[1], Head(pairs)[2],
                        exact_threshold, review_threshold, min_threshold))

\* find_duplicates when the blocks are gone through a second time, each
\* pair the other way round, with processed_pairs emptied in between.
FindDuplicatesRunRevisiting(companies, exact_threshold, review_threshold, min_threshold) ==
  LET pairs == AllPairs(BlockingIndex(companies, 0, <<>>))
      reversed == [k \in 1..Len(pairs) |-> <<pairs[k][2], pairs[k][1]>>]
      first == ScorePairs(companies, pairs,
                          [processed_pairs |-> {}, scored |-> <<>>, matches |-> <<>>],
                          exact_threshold, review_threshold, min_threshold)
  IN ScorePairs(companies, reversed, [first EXCEPT !.processed_pairs = {}],
                exact_threshold, review_threshold, min_threshold)

\* find_duplicates: the final processed_pairs, scored and matches.
FindDuplicatesRun(companies, exact_threshold, review_threshold, min_threshold) ==
  ScorePairs(companies, AllPairs(BlockingIndex(companies, 0, <<>>)),
             [processed_pairs |-> {}, scored |-> <<>>, matches |-> <<>>],
             exact_threshold, review_threshold, min_threshold)

find_duplicates(companies, exact_threshold, review_threshold, min_threshold) ==
  FindDuplicatesRun(companies, exact_threshold, review_threshold, min_threshold).matches

\* list(a_set): the iteration order of a set of str is not specified; this
\* is one enumeration of it.
RECURSIVE ListOfSet(_)
ListOfSet(S) ==
  IF S = {} THEN <<>>
  ELSE LET x == CHOOSE y \in S : TRUE IN <<x>> \o ListOfSet(S \ {x})

\* "a or b" on two optional values: a when it is truthy.
Or(a, b) == IF a # <<>> THEN a ELSE b

\* dict.update on social_links.
DictUpdate(d1, d2) ==
  [k \in (DOMAIN d1) \cup (DOMAIN d2) |-> IF k \in DOMAIN d2 THEN d2[k] ELSE d1[k]]

\* The keyword cap of merge_companies.
KeywordCap == 50

MergeIdentity(i1, i2) ==
  [i1 EXCEPT !.trade_name = Or(@, i2.trade_name),
             !.company_type = Or(@, i2.company_type),
             !.city = Or(@, i2.city),
             !.district = Or(@, i2.district)]

MergeWebPresence(w1, w2) ==
  IF w2 = <<>> THEN w1
  ELSE IF w1 = <<>> THEN w2
  ELSE <<[w1[1] EXCEPT
            !.website_url = Or(@, w2[1].website_url),
            !.social_links = IF DOMAIN w2[1].social_links # {}
                             THEN DictUpdate(@, w2[1].social_links) ELSE @,
            !.google_places = Or(@, w2[1].google_places)]>>

\* The contacts merge when it keeps the base's emails and phones and adds
\* nothing from company2.
MergeContactsBaseOnly(c1, c2) ==
  IF c2 = <<>> THEN c1
  ELSE IF c1 = <<>> THEN c2
  ELSE <<[c1[1] EXCEPT
            !.address_public =
               IF c2[1].address_public # <<>>
                  /\ (@ = <<>> \/ Len(c2[1].address_public) > Len(@))
               THEN c2[1].address_public ELSE @]>>

\* The contacts merge when company2's address also wins a tie in length
\* (>= for >).
MergeContactsTieToSecond(c1, c2) ==
  IF c2 = <<>> THEN c1
  ELSE IF c1 = <<>> THEN c2
  ELSE <<[emails_public |->
            ListOfSet(Range(c1[1].emails_public) \cup Range(c2[1].emails_public)),
          phones_public |->
            ListOfSet(Range(c1[1].phones_public) \cup Range(c2[1].phones_public)),
          address_public |->
            IF c2[1].address_public # <<>>
               /\ (c1[1].address_public = <<>>
                   \/ Len(c2[1].address_public) >= Len(c1[1].address_public))
            THEN c2[1].address_public
            ELSE c1[1].address_public]>>

MergeContacts(c1, c2) ==
  IF c2 = <<>> THEN c1
  ELSE IF c1 = <<>> THEN c2
  ELSE <<[emails_public |->
            ListOfSet(Range(c1[1].emails_public) \cup Range(c2[1].emails_public)),
          phones_public |->
            ListOfSet(Range(c1[1].phones_public) \cup Range(c2[1].phones_public)),
          address_public |->
            IF c2[1].address_public # <<>>
            THEN (IF c1[1].address_public = <<>> THEN c2[1].address_public
                  ELSE IF Len(c2[1].address_public) > Len(c1[1].address_public)
                       THEN c2[1].address_public
                       ELSE c1[1].address_public)
            ELSE c1[1].address_public]>>

MergeBusinessMeta(b1, b2) ==
  IF b2 = <<>> THEN b1
  ELSE IF b1 = <<>> THEN b2
  ELSE <<[keywords |->
            Take(ListOfSet(Range(b1[1].keywords) \cup Range(b2[1].keywords)),
                 KeywordCap),
          industry_naics_guess |-> Or(b1[1].industry_naics_guess, b2[1].industry_naics_guess),
          sic_guess |-> Or(b1[1].sic_guess, b2[1].sic_guess),
          headcount_band_guess |-> Or(b1[1].headcount_band_guess, b2[1].headcount_band_guess),
          founding_year_guess |-> Or(b1[1].founding_year_guess, b2[1].founding_year_guess)]>>

\* merge_companies: company1 is the base.  A confidence score is in 1/1024.
merge_companies(company1, company2) ==
  [company1 EXCEPT
     !.identity = MergeIdentity(@, company2.identity),
     !.web_presence = MergeWebPresence(@, company2.web_presence),
     !.contacts = MergeContacts(@, company2.contacts),
     !.business_meta = MergeBusinessMeta(@, company2.business_meta),
     !.provenance = @ \o company2.provenance,
     !.confidence_score = (@ + company2.confidence_score) \div 2]

\* An ordered dict is a sequence of entries [key, value] in insertion order.
Keys(d) == {d[k].key : k \in 1..Len(d)}

Values(d) == {d[k].value : k \in 1..Len(d)}

\* d[key] for a key of d.
DictAt(d, key) == d[CHOOSE k \in 1..Len(d) : d[k].key = key].value

\* d[key] = value: a key already there keeps its place.
DictSet(d, key, value) ==
  IF key \in Keys(d)
  THEN [k \in 1..Len(d) |-> IF d[k].key = key THEN [d[k] EXCEPT !.value = value] ELSE d[k]]
  ELSE Append(d, [key |-> key, value |-> value])

\* merge_groups.get(id): None is written -1 (a group id is never negative).
NoGroup == -1

GroupGet(merge_groups, id) ==
  IF id \in Keys(merge_groups) THEN DictAt(merge_groups, id) ELSE NoGroup

\* The truth value of "group_a" in "if group_a and group_b": None and the
\* group id 0 are both falsy.
Truthy(group) == group # NoGroup /\ group # 0

\* max(merge_groups.values(), default=-1) + 1
NewGroup(merge_groups) ==
  IF merge_groups = <<>> THEN 0
  ELSE (CHOOSE m \in Values(merge_groups) : \A v \in Values(merge_groups) : v <= m) + 1

\* The loop body when it groups on the review flag
\* ("if match.requires_review:").
GroupMatchReviewed(merge_groups, match, exact_threshold) ==
  IF match.requires_review
  THEN LET id_a == match.company_a_id
           id_b == match.company_b_id
           group_a == GroupGet(merge_groups, id_a)
           group_b == GroupGet(merge_groups, id_b)
       IN IF Truthy(group_a) /\ Truthy(group_b)
          THEN (IF group_a # group_b
                THEN [k \in 1..Len(merge_groups) |->
                        IF merge_groups[k].value = group_b
                        THEN [merge_groups[k] EXCEPT !.value = group_a]
                        ELSE merge_groups[k]]
                ELSE merge_groups)
          ELSE IF Truthy(group_a) THEN DictSet(merge_groups, id_b, group_a)
          ELSE IF Truthy(group_b) THEN DictSet(merge_groups, id_a, group_b)
          ELSE LET new_group == NewGroup(merge_groups)
               IN DictSet(DictSet(merge_groups, id_a, new_group), id_b, new_group)
  ELSE merge_groups

\* The body of the loop "for match in matches" that builds merge_groups.
GroupMatch(merge_groups, match, exact_threshold) ==
  IF match.match_score >= exact_threshold /\ ~match.requires_review
  THEN LET id_a == match.company_a_id
           id_b == match.company_b_id
           group_a == GroupGet(merge_groups, id_a)
           group_b == GroupGet(merge_groups, id_b)
       IN IF Truthy(group_a) /\ Truthy(group_b)
          THEN (IF group_a # group_b
                THEN [k \in 1..Len(merge_groups) |->
                        IF merge_groups[k].value = group_b
                        THEN [merge_groups[k] EXCEPT !.value = group_a]
                        ELSE merge_groups[k]]
                ELSE merge_groups)
          ELSE IF Truthy(group_a) THEN DictSet(merge_groups, id_b, group_a)
          ELSE IF Truthy(group_b) THEN DictSet(merge_groups, id_a, group_b)
          ELSE LET new_group == NewGroup(merge_groups)
               IN DictSet(DictSet(merge_groups, id_a, new_group), id_b, new_group)
  ELSE merge_groups

\* merge_groups after the whole loop over matches.
RECURSIVE BuildMergeGroups(_, _, _)
BuildMergeGroups(merge_groups, matches, exact_threshold) ==
  IF matches = <<>> THEN merge_groups
  ELSE Strict(LAMBDA v : BuildMergeGroups(v, Tail(matches), exact_threshold),
              GroupMatch(merge_groups, Head(matches), exact_threshold))

\* company_index[company_id]: in the dict comprehension a later record
\* with the same key replaces an earlier one.
CompanyIndex(companies, company_id) ==
  LET at == {i \in 0..(Len(companies) - 1) : CompanyId(companies[i + 1], i) = company_id}
  IN companies[(CHOOSE i \in at : \A j \in at : j <= i) + 1]

\* The body of the loop "for company_id, group_id in merge_groups.items()".
MergeGroupMember(merged_companies, companies, company_id, group_id) ==
  IF group_id \notin Keys(merged_companies)
  THEN DictSet(merged_companies, group_id, CompanyIndex(companies, company_id))
  ELSE DictSet(merged_companies, group_id,
               merge_companies(DictAt(merged_companies, group_id),
                               CompanyIndex(companies, company_id)))

\* The result list when the test "company_id not in merge_groups" is left
\* out: every input record is appended after the merged ones.
ResultCompaniesUnfiltered(merged_companies, merge_groups, companies) ==
  [k \in 1..Len(merged_companies) |-> merged_companies[k].value] \o companies

\* The result list when every id of merge_groups contributes its own record
\* instead of every group its merged one.
ResultCompaniesPerMember(merged_companies, merge_groups, companies) ==
  LET RECURSIVE Rest(_)
      Rest(i) ==
        IF i >= Len(companies) THEN <<>>
        ELSE (IF CompanyId(companies[i + 1], i) \notin Keys(merge_groups)
              THEN <<companies[i + 1]>> ELSE <<>>) \o Rest(i + 1)
  IN [k \in 1..Len(merge_groups) |-> CompanyIndex(companies, merge_groups[k].key)]
       \o Rest(0)

\* list(merged_companies.values()) followed by the records whose id is not
\* in merge_groups, in input order.
ResultCompanies(merged_companies, merge_groups, companies) ==
  LET RECURSIVE Rest(_)
      Rest(i) ==
        IF i >= Len(companies) THEN <<>>
        ELSE (IF CompanyId(companies[i + 1], i) \notin Keys(merge_groups)
              THEN <<companies[i + 1]>> ELSE <<>>) \o Rest(i + 1)
  IN [k \in 1..Len(merged_companies) |-> merged_companies[k].value] \o Rest(0)

\* merged_companies after the whole loop over merge_groups.items().
RECURSIVE MergeMembers(_, _, _, _)
MergeMembers(merged_companies, merge_groups, companies, k) ==
  IF k > Len(merge_groups) THEN merged_companies
  ELSE Strict(LAMBDA v : MergeMembers(v, merge_groups, companies, k + 1),
              MergeGroupMember(merged_companies, companies,
                               merge_groups[k].key, merge_groups[k].value))

\* resolve_duplicates as a whole: (result companies, matches), and the
\* merge_groups it built on the way.
resolve_duplicates(companies, auto_merge, exact_threshold, review_threshold, min_threshold) ==
  LET found == find_duplicates(companies, exact_threshold, review_threshold,
                               min_threshold)
      groups == BuildMergeGroups(<<>>, found, exact_threshold)
  IN IF found = <<>> \/ ~auto_merge
     THEN [companies |-> companies, matches |-> found, merge_groups |-> <<>>]
     ELSE [companies |-> ResultCompanies(MergeMembers(<<>>, groups, companies, 1),
                                         groups, companies),
           matches |-> found,
           merge_groups |-> groups]

VARIABLES
  companies,         \* the list resolve_duplicates is called with
  auto_merge,        \* its auto_merge argument
  exact_threshold,   \* the resolver's thresholds
  review_threshold,
  min_threshold,
  pc,                \* where the call is
  matches,           \* the list find_duplicates returned
  scored,            \* the pairs find_duplicates scored and their similarity, in order
  next_match,        \* the grouping loop's position in matches (from 1)
  merge_groups,      \* the dict id -> group id
  next_member,       \* the merge loop's position in merge_groups (from 1)
  merged_companies,  \* the dict group id -> record
  result_companies   \* the returned list of records

vars == <<companies, auto_merge, exact_threshold, review_threshold, min_threshold,
          pc, matches, scored, next_match, merge_groups, next_member,
          merged_companies, result_companies, blocking_keys, similarities>>

input == <<companies, auto_merge, exact_threshold, review_threshold, min_threshold,
           blocking_keys, similarities>>

Init ==
  /\ blocking_keys = BlockingKeys
  /\ similarities = Similarities
  /\ \E recs \in Lists, ids \in IdPatterns : companies = InputList(recs, ids)
  /\ auto_merge \in BOOLEAN
  /\ \E config \in ThresholdConfigs :
       /\ exact_threshold = config[1]
       /\ review_threshold = config[2]
       /\ min_threshold = config[3]
  /\ pc = "start"
  /\ matches = <<>>
  /\ scored = <<>>
  /\ next_match = 1
  /\ merge_groups = <<>>
  /\ next_member = 1
  /\ merged_companies = <<>>
  /\ result_companies = <<>>

\* matches = self.find_duplicates(companies)
FindDuplicates ==
  /\ pc = "start"
  /\ LET run == FindDuplicatesRun(companies, exact_threshold, review_threshold,
                                  min_threshold)
     IN /\ matches' = run.matches
        /\ scored' = run.scored
  /\ pc' = "found"
  /\ UNCHANGED <<input, next_match, merge_groups, next_member, merged_companies,
                 result_companies>>

\* The early return when it only tests "not matches": a call with
\* auto_merge false goes on to merge.
ReturnInputMerged ==
  /\ pc = "found"
  /\ matches = <<>> \/ ~auto_merge
  /\ result_companies' =
       resolve_duplicates(companies, TRUE, exact_threshold, review_threshold,
                          min_threshold).companies
  /\ pc' = "done"
  /\ UNCHANGED <<input, matches, scored, next_match, merge_groups, next_member,
                 merged_companies>>

\* if not matches or not auto_merge: return companies, matches
ReturnInput ==
  /\ pc = "found"
  /\ matches = <<>> \/ ~auto_merge
  /\ result_companies' = companies
  /\ pc' = "done"
  /\ UNCHANGED <<input, matches, scored, next_match, merge_groups, next_member,
                 merged_companies>>

\* One iteration of "for match in matches".
GroupNextMatch ==
  /\ pc = "found"
  /\ matches # <<>> /\ auto_merge
  /\ next_match <= Len(matches)
  /\ merge_groups' = GroupMatch(merge_groups, matches[next_match], exact_threshold)
  /\ next_match' = next_match + 1
  /\ UNCHANGED <<input, pc, matches, scored, next_member, merged_companies,
                 result_companies>>

\* The loop over matches is over: company_index is built.
StartMerging ==
  /\ pc = "found"
  /\ matches # <<>> /\ auto_merge
  /\ next_match > Len(matches)
  /\ pc' = "merging"
  /\ UNCHANGED <<input, matches, scored, next_match, merge_groups, next_member,
                 merged_companies, result_companies>>

\* One iteration of "for company_id, group_id in merge_groups.items()".
MergeNextMember ==
  /\ pc = "merging"
  /\ next_member <= Len(merge_groups)
  /\ merged_companies' = MergeGroupMember(merged_companies, companies,
                                          merge_groups[next_member].key,
                                          merge_groups[next_member].value)
  /\ next_member' = next_member + 1
  /\ UNCHANGED <<input, pc, matches, scored, next_match, merge_groups,
                 result_companies>>

\* The merged records, then the records that are in no group; return.
ReturnResult ==
  /\ pc = "merging"
  /\ next_member > Len(merge_groups)
  /\ result_companies' = ResultCompanies(merged_companies, merge_groups, companies)
  /\ pc' = "done"
  /\ UNCHANGED <<input, matches, scored, next_match, merge_groups, next_member,
                 merged_companies>>

Next ==
  \/ FindDuplicates
  \/ ReturnInput
  \/ GroupNextMatch
  \/ StartMerging
  \/ MergeNextMember
  \/ ReturnResult

Spec == Init /\ [][Next]_vars

\* ------------------------------------------------------------ properties

\* The positions (from 0) of the input list.
Positions == 0..(Len(companies) - 1)

\* The positions of the records that go by this id.
PositionsOf(id) == {i \in Positions : CompanyId(companies[i + 1], i) = id}

\* The input records folded into output record k, by their provenance.
Folded(k) == Range(result_companies[k].provenance)

\* A match that the grouping loop merges on.
Qualifies(m) == m.match_score >= exact_threshold /\ ~m.requires_review

\* The call ran the grouping and merging phase to its end.
MergedDone == pc = "done" /\ auto_merge /\ matches # <<>>

\* C1: when two emitted matches (a,b) and (b,c) over three distinct ids both
\* have a score of at least exact_threshold and need no review, then a, b and
\* c are in one merge group and exactly one output record replaces all three.
C1_TransitiveClosure ==
  MergedDone =>
    \A m1 \in Range(matches), m2 \in Range(matches) :
      (Qualifies(m1) /\ Qualifies(m2)
         /\ Cardinality({m1.company_a_id, m1.company_b_id,
                         m2.company_a_id, m2.company_b_id}) = 3)
      => LET ids == {m1.company_a_id, m1.company_b_id,
                     m2.company_a_id, m2.company_b_id}
             members == UNION {PositionsOf(id) : id \in ids}
         IN /\ \A x \in ids, y \in ids :
                 GroupGet(merge_groups, x) = GroupGet(merge_groups, y)
            /\ \E k \in 1..Len(result_companies) :
                 /\ members \subseteq Folded(k)
                 /\ \A j \in 1..Len(result_companies) :
                      j # k => Folded(j) \cap members = {}

\* The score find_duplicates computed for the k-th pair it scored.
PairScore(k) == scored[k].sim.score

\* The scored pairs that have a match in the list, and the match of each:
\* matches holds them in the order they were scored.
MatchIndex(k) == Cardinality({j \in 1..k : PairScore(j) >= min_threshold})

HasMatch(k) ==
  /\ PairScore(k) >= min_threshold
  /\ MatchIndex(k) <= Len(matches)

MatchOf(k) == matches[MatchIndex(k)]

\* The pairs of input positions joined by an emitted match that qualifies.
QualifyingLinks ==
  {{scored[k].idx1, scored[k].idx2} :
     k \in {n \in 1..Len(scored) : HasMatch(n) /\ Qualifies(MatchOf(n))}}

\* The positions a path of qualifying matches leads to from those in S.
RECURSIVE Closure(_)
Closure(S) ==
  LET T == S \cup {q \in Positions : \E p \in S : {p, q} \in QualifyingLinks}
  IN IF T = S THEN S ELSE Closure(T)

\* C2: two input records are folded into the same output record only if a
\* path of emitted matches, each with a score of at least exact_threshold and
\* requires_review false, connects them.
C2_MergedOnlyAlongExactPaths ==
  pc = "done" =>
    \A k \in 1..Len(result_companies) :
      \A i \in Folded(k), j \in Folded(k) : j \in Closure({i})

\* How often x occurs in the sequence seq.
Count(seq, x) == Cardinality({n \in 1..Len(seq) : seq[n] = x})

\* C3: at every point of the construction of merge_groups an id has at most
\* one group, and in the result no input record is folded into, or passed
\* through as, more than one output record.
C3_OneGroupPerRecord ==
  /\ \A k1 \in 1..Len(merge_groups), k2 \in 1..Len(merge_groups) :
       merge_groups[k1].key = merge_groups[k2].key => k1 = k2
  /\ pc = "done" =>
       \A i \in Positions :
         /\ Cardinality({k \in 1..Len(result_companies) : i \in Folded(k)}) <= 1
         /\ \A k \in 1..Len(result_companies) :
              Count(result_companies[k].provenance, i) <= 1

\* A finished run that built two groups of two or more records each.
C3_Witness ==
  /\ MergedDone
  /\ Cardinality({k \in 1..Len(result_companies) :
                    Len(result_companies[k].provenance) >= 2}) >= 2

\* C4: a scored pair has a match in the list exactly when its score is at
\* least min_threshold; the match carries the pair's ids and score, and its
\* type is "exact" exactly when the score is at least exact_threshold and
\* "fuzzy" exactly when the score is in [min_threshold, exact_threshold).
C4_EmittedAndClassified ==
  /\ Len(matches) = Cardinality({k \in 1..Len(scored) : PairScore(k) >= min_threshold})
  /\ \A k \in 1..Len(scored) :
       PairScore(k) >= min_threshold =>
         LET m == MatchOf(k)
             a == scored[k].idx1
             b == scored[k].idx2
         IN /\ m.company_a_id = CompanyId(companies[a + 1], a)
            /\ m.company_b_id = CompanyId(companies[b + 1], b)
            /\ m.match_score = PairScore(k)
            /\ m.match_type \in {"exact", "fuzzy"}
            /\ m.match_type = "exact" <=> PairScore(k) >= exact_threshold
            /\ m.match_type = "fuzzy" <=>
                 (min_threshold <= PairScore(k) /\ PairScore(k) < exact_threshold)

\* One call scored a pair below min_threshold, a pair exactly at
\* min_threshold and a pair exactly at exact_threshold.
C4_Witness ==
  /\ pc = "found"
  /\ \E k \in 1..Len(scored) : PairScore(k) < min_threshold
  /\ \E k \in 1..Len(scored) :
       PairScore(k) = min_threshold /\ MatchOf(k).match_type = "fuzzy"
  /\ \E k \in 1..Len(scored) :
       PairScore(k) = exact_threshold /\ MatchOf(k).match_type = "exact"

\* C5: an emitted match has requires_review true exactly when its score is
\* in [review_threshold, exact_threshold); a match with a score of at least
\* exact_threshold never requires review.
C5_ReviewBand ==
  \A k \in 1..Len(matches) :
    /\ matches[k].requires_review <=>
         (review_threshold <= matches[k].match_score
            /\ matches[k].match_score < exact_threshold)
    /\ matches[k].match_score >= exact_threshold => ~matches[k].requires_review

\* One call emitted a match below the review band, one at its lower end and
\* one at or above exact_threshold.
C5_Witness ==
  /\ pc = "found"
  /\ \E k \in 1..Len(matches) :
       matches[k].match_score < review_threshold /\ ~matches[k].requires_review
  /\ \E k \in 1..Len(matches) :
       matches[k].match_score = review_threshold /\ matches[k].requires_review
  /\ \E k \in 1..Len(matches) :
       matches[k].match_score >= exact_threshold /\ ~matches[k].requires_review

\* The fields that have a value in both records.
HasPhones(c) == c.contacts # <<>> /\ c.contacts[1].phones_public # <<>>

HasEmails(c) == c.contacts # <<>> /\ c.contacts[1].emails_public # <<>>

PresentInBoth(c1, c2) ==
  {f \in Range(Fields) :
     \/ f = "domain" /\ HasWebsite(c1) /\ HasWebsite(c2)
     \/ f = "legal_name" /\ c1.identity.legal_name # <<>> /\ c2.identity.legal_name # <<>>
     \/ f = "phone" /\ HasPhones(c1) /\ HasPhones(c2)
     \/ f = "email" /\ HasEmails(c1) /\ HasEmails(c2)
     \/ f = "address" /\ HasAddress(c1) /\ HasAddress(c2)}

\* The sum of the weights of the fields in present, from the k-th on.
RECURSIVE PresentWeight(_, _)
PresentWeight(present, k) ==
  IF k > Len(Fields) THEN 0
  ELSE (IF Fields[k] \in present THEN field_weights[Fields[k]] ELSE 0)
       + PresentWeight(present, k + 1)

\* The sum of score * weight over the fields in present, from the k-th on.
RECURSIVE PresentTotal(_, _, _)
PresentTotal(present, field_scores, k) ==
  IF k > Len(Fields) THEN 0
  ELSE (IF Fields[k] \in present
        THEN field_scores[Fields[k]] * field_weights[Fields[k]] ELSE 0)
       + PresentTotal(present, field_scores, k + 1)

\* C6: the overall score of a scored pair is the weighted mean of the field
\* scores over the fields present in both records only (score * weight
\* summed over those fields, divided by the sum of their weights), and 0
\* when no field is present in both.
C6_MeanOverPresentFields ==
  \A k \in 1..Len(scored) :
    LET c1 == companies[scored[k].idx1 + 1]
        c2 == companies[scored[k].idx2 + 1]
        present == PresentInBoth(c1, c2)
        weight == PresentWeight(present, 1)
        total == PresentTotal(present, scored[k].sim.field_scores, 1)
    IN IF weight = 0 THEN scored[k].sim.score = 0
       ELSE scored[k].sim.score * weight = total * 100

\* C7: every field score and every overall score that
\* calculate_company_similarity returns is in [0, 1] (0..100 percent and
\* 0..10000 on the model's grids), and so is every match_score in the list.
C7_ScoresInUnitInterval ==
  /\ \A k \in 1..Len(scored) :
       /\ scored[k].sim.score \in 0..10000
       /\ \A f \in Range(Fields) : scored[k].sim.field_scores[f] \in 0..100
  /\ \A k \in 1..Len(matches) : matches[k].match_score \in 0..10000

\* One call scored a pair with a field score strictly inside the interval
\* and a field score of 0, and a pair with the overall score 1.
C7_Witness ==
  /\ pc = "found"
  /\ matches # <<>>
  /\ \E k \in 1..Len(scored) :
       /\ \E f \in Range(Fields) :
            scored[k].sim.field_scores[f] > 0 /\ scored[k].sim.field_scores[f] < 100
       /\ \E f \in Range(Fields) : scored[k].sim.field_scores[f] = 0
  /\ \E k \in 1..Len(scored) : scored[k].sim.score = 10000

\* C8: for every two records a and b of an input list,
\* calculate_company_similarity(a, b) and calculate_company_similarity(b, a)
\* return the same overall score and the same field score map (stated of the
\* list as the call receives it; the list does not change afterwards).
C8_SimilaritySymmetric ==
  pc = "start" =>
    \A i \in Positions, j \in Positions :
      SimilarityOf(companies[i + 1], companies[j + 1])
        = SimilarityOf(companies[j + 1], companies[i + 1])

\* find_duplicates scored two records with different names whose score is
\* neither 0 nor 1, and the call with the arguments swapped returns the same.
C8_Witness ==
  /\ pc = "found"
  /\ \E k \in 1..Len(scored) :
       LET a == companies[scored[k].idx1 + 1]
           b == companies[scored[k].idx2 + 1]
       IN /\ a.identity.legal_name # b.identity.legal_name
          /\ scored[k].sim.score \notin {0, 10000}
          /\ scored[k].sim.field_scores.legal_name \notin {0, 100}
          /\ SimilarityOf(b, a) = scored[k].sim

\* The min_threshold values not below the one of this run.
HigherMinThresholds == {m2 \in MinThresholds : min_threshold <= m2}

\* What find_duplicates returns for the same input and the same exact and
\* review thresholds with min_threshold m2, as a set.
EmittedWith(m2) ==
  Range(find_duplicates(companies, exact_threshold, review_threshold, m2))

\* C9: with the input list and the exact and review thresholds fixed, the
\* matches find_duplicates emits with a min_threshold m2 are a subset of
\* those it emits with a min_threshold m1 <= m2, and no more in number.
C9_MinThresholdMonotone ==
  (pc = "found" /\ next_match = 1) =>
    \A m2 \in HigherMinThresholds :
      /\ EmittedWith(m2) \subseteq Range(matches)
      /\ Len(find_duplicates(companies, exact_threshold, review_threshold, m2))
           <= Len(matches)

\* A run whose matches are strictly more than, and include, the non-empty
\* set emitted with a higher min_threshold.
C9_Witness ==
  /\ pc = "found" /\ next_match = 1
  /\ \E m2 \in HigherMinThresholds :
       /\ m2 > min_threshold
       /\ EmittedWith(m2) # {}
       /\ EmittedWith(m2) \subseteq Range(matches)
       /\ EmittedWith(m2) # Range(matches)

\* The exact_threshold values not below the one of this run.
HigherExactThresholds == {e2 \in ExactThresholds : exact_threshold <= e2}

\* resolve_duplicates on the same input with auto_merge and exact_threshold
\* e2, the other thresholds as in this run.
ResolvedWith(e2) ==
  resolve_duplicates(companies, TRUE, e2, review_threshold, min_threshold)

\* The number of output records that are a fold of two or more records.
MergedGroupCount(result) ==
  Cardinality({k \in 1..Len(result) : Len(result[k].provenance) >= 2})

\* C10: with the input list fixed, raising exact_threshold never increases
\* the number of groups of two or more records that resolve_duplicates folds
\* into one record.
C10_MergedGroupsMonotone ==
  MergedDone =>
    \A e2 \in HigherExactThresholds :
      MergedGroupCount(ResolvedWith(e2).companies) <= MergedGroupCount(result_companies)

\* C10, amended: with the input list fixed, raising exact_threshold never
\* adds a record id to the merge groups: every id that has a group at the
\* higher threshold has one at the lower threshold.
C10_GroupedIdsMonotone ==
  MergedDone =>
    \A e2 \in HigherExactThresholds :
      Keys(ResolvedWith(e2).merge_groups) \subseteq Keys(merge_groups)

\* A run after which a higher exact_threshold gives more merged groups, out
\* of ids that all have a group in this run.
C10_Witness ==
  /\ MergedDone
  /\ \E e2 \in HigherExactThresholds :
       /\ e2 > exact_threshold
       /\ MergedGroupCount(ResolvedWith(e2).companies) > MergedGroupCount(result_companies)
       /\ Keys(ResolvedWith(e2).merge_groups) # {}
       /\ Keys(ResolvedWith(e2).merge_groups) \subseteq Keys(merge_groups)

\* The components ("domain:...", "name:...", "phone:...", "city:...") that
\* create_blocking_key joined into the key of a record; 'unknown' is the key
\* of a record that has none.
BlockingComponents(company) ==
  IF BlockingKeyOf(company) = <<"u", "n", "k", "n", "o", "w", "n">> THEN {}
  ELSE Range(SplitOn(BlockingKeyOf(company), "|"))

\* The two records of scored pair k.
ScoredFirst(k) == companies[scored[k].idx1 + 1]
ScoredSecond(k) == companies[scored[k].idx2 + 1]

\* C11: find_duplicates scores a pair only when both records lie in the same
\* blocking bucket, and two records that share no blocking key component
\* never appear together in the match list.
C11_SameBucketOnly ==
  pc # "start" =>
    \A k \in 1..Len(scored) :
      /\ BlockingKeyOf(ScoredFirst(k)) = BlockingKeyOf(ScoredSecond(k))
      /\ HasMatch(k) =>
           BlockingComponents(ScoredFirst(k)) \cap BlockingComponents(ScoredSecond(k)) # {}

\* The record's blocking key is the literal 'unknown'.
HasUnknownKey(company) == BlockingComponents(company) = {}

\* C12: a record whose blocking key is the literal 'unknown' is never scored
\* against any other record, other 'unknown' records included, and it still
\* appears in the output of resolve_duplicates.
C12_UnknownNeverCompared ==
  /\ pc # "start" =>
       \A k \in 1..Len(scored) :
         ~HasUnknownKey(ScoredFirst(k)) /\ ~HasUnknownKey(ScoredSecond(k))
  /\ pc = "done" =>
       \A i \in Positions :
         HasUnknownKey(companies[i + 1]) =>
           \E k \in 1..Len(result_companies) : i \in Folded(k)

\* C13: resolve_duplicates with auto_merge false returns the input list
\* unchanged (the same records in the same order), together with exactly
\* the match list that the call with auto_merge true returns.
C13_NoMergeReturnsInput ==
  pc = "done" /\ ~auto_merge =>
    /\ result_companies = companies
    /\ matches = resolve_duplicates(companies, TRUE, exact_threshold,
                                    review_threshold, min_threshold).matches

\* A call with auto_merge false has returned, on an input that the call
\* with auto_merge true folds into fewer records.
C13_Witness ==
  /\ pc = "done" /\ ~auto_merge
  /\ Len(matches) >= 2
  /\ Len(resolve_duplicates(companies, TRUE, exact_threshold, review_threshold,
                            min_threshold).companies) < Len(companies)

\* The positions of S in increasing order.
RECURSIVE Ascending(_)
Ascending(S) ==
  IF S = {} THEN <<>>
  ELSE LET least == CHOOSE i \in S : \A j \in S : i <= j
       IN <<least>> \o Ascending(S \ {least})

\* merge_companies folded from the left over the input records at the given
\* positions, starting from the record merged so far.
RECURSIVE FoldFrom(_, _)
FoldFrom(merged, positions) ==
  IF positions = <<>> THEN merged
  ELSE FoldFrom(merge_companies(merged, companies[Head(positions) + 1]),
                Tail(positions))

\* The left fold of merge_companies over the input records at the positions
\* of S, in input order.
FoldInInputOrder(S) ==
  FoldFrom(companies[Head(Ascending(S)) + 1], Tail(Ascending(S)))

\* C14: every record that resolve_duplicates folds out of a merge group is
\* the left fold of merge_companies over the group's members in input order:
\* the base is the earliest member (the canonical legal_name is that
\* member's) and the others are folded in by increasing input position.
C14_FoldInInputOrder ==
  MergedDone =>
    \A k \in 1..Len(result_companies) :
      Len(result_companies[k].provenance) >= 2 =>
        /\ result_companies[k] = FoldInInputOrder(Folded(k))
        /\ result_companies[k].identity.legal_name =
             companies[Head(Ascending(Folded(k))) + 1].identity.legal_name

\* C15: a resolver whose thresholds violate
\* 0 <= min_threshold <= review_threshold <= exact_threshold <= 1 is never
\* constructed, so no call of find_duplicates or resolve_duplicates executes
\* with thresholds out of order.
C15_ThresholdsOrdered ==
  pc # "start" =>
    /\ 0 <= min_threshold
    /\ min_threshold <= review_threshold
    /\ review_threshold <= exact_threshold
    /\ exact_threshold <= 10000

\* --------------------------------------------------- normalization runs

\* The values the fields of a record to normalize are drawn from: legal
\* names with and without a legal form, cities, web presences and contacts
\* as the schema admits them.
NormNames == {
  <<"A","B","C"," ","A",".",US,".">>,
  <<"a","b","c"," ","l","t","d">>,
  <<"L",UI,"M",UI,"T","E","D"," ",",",US,UI,"R","K","E","T",UI>>,
  <<"A","B","C">> }

NormCities == {<<>>, <<"i","z","m","i","r">>, <<UI,"Z","M",UI,"R">>}

NormCompanyTypes == {<<>>, <<LIMITED>>}

NormWebPresences == {
  <<>>,
  <<[website_url |-> <<"h","t","t","p","s",":","/","/","w","w","w",".",
                       "w","w","w",".","a",".","c","o">>,
     social_links |-> <<>>, google_places |-> <<>>]>>,
  <<[website_url |-> <<"h","t","t","p",":","/","/","a",".","c","o","/">>,
     social_links |-> [linkedin |-> <<"w","w","w",".","x",".","c","o","/">>],
     google_places |-> <<>>]>> }

NormContacts == {
  <<>>,
  <<[emails_public |-> <<<<"I","@","a",".","c","o">>>>,
     phones_public |-> <<Phone3, PhoneShort>>,
     address_public |-> <<"a","b"," "," ","C","a","d",".">>]>>,
  <<[emails_public |-> <<<<"a",".","c","o">>, <<"i","@","a","c","o">>, MailInfo>>,
     phones_public |-> <<<<"n","/","a">>, Phone3>>,
     address_public |-> <<>>]>> }

\* A record to normalize.
NormRecord(legal_name, city, company_type, web_presence, contacts) ==
  [Company(legal_name, <<>>, <<>>, <<>>, <<>>) EXCEPT
     !.identity.city = city,
     !.identity.company_type = company_type,
     !.web_presence = web_presence,
     !.contacts = contacts]

\* A record is given to normalize_company: companies holds it, and
\* result_companies will hold what the calls return.
NormalizeInit ==
  /\ blocking_keys = <<>>
  /\ similarities = <<>>
  /\ \E legal_name \in NormNames, city \in NormCities,
        company_type \in NormCompanyTypes, web_presence \in NormWebPresences,
        contacts \in NormContacts :
       companies = <<NormRecord(legal_name, city, company_type, web_presence, contacts)>>
  /\ auto_merge = FALSE
  /\ exact_threshold = 9500
  /\ review_threshold = 8500
  /\ min_threshold = 7000
  /\ pc = "raw"
  /\ matches = <<>>
  /\ scored = <<>>
  /\ next_match = 1
  /\ merge_groups = <<>>
  /\ next_member = 1
  /\ merged_companies = <<>>
  /\ result_companies = <<>>

\* normalize_company(company)
NormalizeCompany ==
  /\ pc = "raw"
  /\ result_companies' = <<normalize_company(companies[1])>>
  /\ pc' = "normalized"
  /\ UNCHANGED <<input, matches, scored, next_match, merge_groups, next_member,
                 merged_companies>>

\* normalize_company on the record the first call returned.
NormalizeAgain ==
  /\ pc = "normalized"
  /\ result_companies' = Append(result_companies, normalize_company(result_companies[1]))
  /\ pc' = "renormalized"
  /\ UNCHANGED <<input, matches, scored, next_match, merge_groups, next_member,
                 merged_companies>>

NormalizeNext ==
  \/ NormalizeCompany
  \/ NormalizeAgain

NormalizeSpec == NormalizeInit /\ [][NormalizeNext]_vars

\* C16: normalize_company is idempotent: normalizing the normalized record
\* changes no field (name, city, inferred company type, website URL, social
\* links, emails, phones, address).
C16_NormalizeIdempotent ==
  pc = "renormalized" => result_companies[2] = result_companies[1]

\* C17: when normalize_company is given a record without a company type
\* whose original legal name matches a legal-form pattern, the normalized
\* record's company type is the first legal form, in declared order, whose
\* pattern matches the original name.
C17_TypeFromOriginalName ==
  /\ pc # "raw"
  /\ companies[1].identity.company_type = <<>>
  /\ extract_company_type(companies[1].identity.legal_name) # <<>>
  => result_companies[1].identity.company_type =
       extract_company_type(companies[1].identity.legal_name)

\* ----------------------------------------------------------- merge runs

\* The most keywords a record to merge carries.
MaxKeywords == 55

\* The keywords numbered from..to.
Keywords(from, to) == [i \in 1..(to - from + 1) |-> <<"k">> \o Str(from + i - 1)]

\* A BusinessMeta with these keywords.
BusinessMeta(keywords) ==
  [keywords |-> keywords, industry_naics_guess |-> <<>>, sic_guess |-> <<>>,
   headcount_band_guess |-> <<>>, founding_year_guess |-> <<>>]

\* The business_meta of a record to merge: none, or a block with no
\* keywords, a few, or more than the cap.
MergeMetas == {
  <<>>,
  <<BusinessMeta(<<>>)>>,
  <<BusinessMeta(Keywords(1, 2))>>,
  <<BusinessMeta(Keywords(1, 30))>>,
  <<BusinessMeta(Keywords(26, MaxKeywords))>>,
  <<BusinessMeta(Keywords(1, KeywordCap + 1))>> }

StreetOther == <<"c","d"," ","C","a","d",".">>
StreetLong == <<"a","b"," ","C","a","d","d","e","s","i">>

\* The contacts of a record to merge: none, or a block with or without an
\* address; Street and StreetOther have the same length.
MergeContactsValues == {
  <<>>,
  <<[emails_public |-> <<MailInfo>>, phones_public |-> <<Phone3>>,
     address_public |-> Street]>>,
  <<[emails_public |-> <<MailContact>>, phones_public |-> <<Phone3, Phone4>>,
     address_public |-> StreetOther]>>,
  <<[emails_public |-> <<MailInfo, MailContact>>, phones_public |-> <<>>,
     address_public |-> StreetLong]>>,
  <<[emails_public |-> <<>>, phones_public |-> <<Phone4>>,
     address_public |-> <<>>]>> }

\* A record to merge.
MergeRecord(contacts, business_meta) ==
  [Company(<<"A","B","C">>, UrlA, <<>>, <<>>, <<>>) EXCEPT
     !.contacts = contacts, !.business_meta = business_meta]

MergeRecords ==
  {MergeRecord(contacts, business_meta) :
     contacts \in MergeContactsValues, business_meta \in MergeMetas}

\* Two records are given to merge_companies: companies holds them, and
\* result_companies will hold what the calls return.
MergeInit ==
  /\ blocking_keys = <<>>
  /\ similarities = <<>>
  /\ \E company1 \in MergeRecords, company2 \in MergeRecords :
       companies = <<company1, company2>>
  /\ auto_merge = TRUE
  /\ exact_threshold = 9500
  /\ review_threshold = 8500
  /\ min_threshold = 7000
  /\ pc = "operands"
  /\ matches = <<>>
  /\ scored = <<>>
  /\ next_match = 1
  /\ merge_groups = <<>>
  /\ next_member = 1
  /\ merged_companies = <<>>
  /\ result_companies = <<>>

\* merge_companies(company1, company2)
MergeCompanies ==
  /\ pc = "operands"
  /\ result_companies' = <<merge_companies(companies[1], companies[2])>>
  /\ pc' = "merged"
  /\ UNCHANGED <<input, matches, scored, next_match, merge_groups, next_member,
                 merged_companies>>

\* merge_companies(company2, company1): the same records, the other as base.
MergeSwapped ==
  /\ pc = "merged"
  /\ result_companies' =
       Append(result_companies, merge_companies(companies[2], companies[1]))
  /\ pc' = "swapped"
  /\ UNCHANGED <<input, matches, scored, next_match, merge_groups, next_member,
                 merged_companies>>

MergeNext ==
  \/ MergeCompanies
  \/ MergeSwapped

MergeSpec == MergeInit /\ [][MergeNext]_vars

\* The emails, phones, address and keywords of a record, empty when the
\* record has no contacts or business_meta block.
EmailsOf(c) == IF c.contacts = <<>> THEN {} ELSE Range(c.contacts[1].emails_public)
PhonesOf(c) == IF c.contacts = <<>> THEN {} ELSE Range(c.contacts[1].phones_public)
AddressOf(c) == IF c.contacts = <<>> THEN <<>> ELSE c.contacts[1].address_public
KeywordsOf(c) == IF c.business_meta = <<>> THEN <<>> ELSE c.business_meta[1].keywords

\* C18: the emails and the phones of merge_companies(a, b) are the set
\* unions of those of a and b, and the same sets as those of
\* merge_companies(b, a), also when a or b has no contacts block.
C18_ContactsUnion ==
  pc = "swapped" =>
    \A k \in 1..2 :
      /\ EmailsOf(result_companies[k]) = EmailsOf(companies[1]) \cup EmailsOf(companies[2])
      /\ PhonesOf(result_companies[k]) = PhonesOf(companies[1]) \cup PhonesOf(companies[2])

\* Both merges are done of two records with contacts, each with an email and
\* a phone that the other has not.
C18_Witness ==
  /\ pc = "swapped"
  /\ EmailsOf(companies[1]) \ EmailsOf(companies[2]) # {}
  /\ EmailsOf(companies[2]) \ EmailsOf(companies[1]) # {}
  /\ PhonesOf(companies[2]) \ PhonesOf(companies[1]) # {}
  /\ EmailsOf(result_companies[1]) = EmailsOf(result_companies[2])

\* C19: when both records have a non-empty address, merge_companies yields
\* the longer address whichever record is the base, and the base's address
\* when the two are equally long.
C19_LongerAddressWins ==
  pc = "swapped" /\ AddressOf(companies[1]) # <<>> /\ AddressOf(companies[2]) # <<>> =>
    LET address1 == AddressOf(companies[1])
        address2 == AddressOf(companies[2])
        longer == IF Len(address1) > Len(address2) THEN address1 ELSE address2
    IN IF Len(address1) # Len(address2)
       THEN /\ AddressOf(result_companies[1]) = longer
            /\ AddressOf(result_companies[2]) = longer
       ELSE /\ AddressOf(result_companies[1]) = address1
            /\ AddressOf(result_companies[2]) = address2

\* Both merges are done of two records with different addresses of the same
\* length, and each merge kept its base's address.
C19_Witness ==
  /\ pc = "swapped"
  /\ AddressOf(companies[1]) # <<>>
  /\ AddressOf(companies[1]) # AddressOf(companies[2])
  /\ Len(AddressOf(companies[1])) = Len(AddressOf(companies[2]))
  /\ AddressOf(result_companies[1]) # AddressOf(result_companies[2])

\* The different keywords of the two records.
KeywordUnion == Range(KeywordsOf(companies[1])) \cup Range(KeywordsOf(companies[2]))

\* C20: the keywords of every record merge_companies returns are the union of
\* both records' keywords capped at 50 entries: never more than 50, whichever
\* of the two records has a business_meta block and however many keywords
\* each carries.
C20_KeywordsCapped ==
  pc # "operands" =>
    \A k \in 1..Len(result_companies) :
      /\ Len(KeywordsOf(result_companies[k])) <= KeywordCap
      /\ Range(KeywordsOf(result_companies[k])) \subseteq KeywordUnion
      /\ Cardinality(KeywordUnion) <= KeywordCap =>
           Range(KeywordsOf(result_companies[k])) = KeywordUnion

\* ------------------------------------------------------------ fold runs

\* The confidence scores of the records to fold, in 1/1024: 0.25, 0.5, 0.75
\* and 1.0, so that two halvings are exact.
ConfidenceGrid == {256, 512, 768, 1024}

\* A record to fold, with this confidence score.
FoldRecord(confidence_score) ==
  [Company(<<"A","B","C">>, UrlA, <<>>, <<>>, <<>>) EXCEPT
     !.confidence_score = confidence_score]

\* Three records a, b, c are given: companies holds them, and
\* result_companies will hold the two folds.
FoldInit ==
  /\ blocking_keys = <<>>
  /\ similarities = <<>>
  /\ \E a \in ConfidenceGrid, b \in ConfidenceGrid, c \in ConfidenceGrid :
       companies = <<FoldRecord(a), FoldRecord(b), FoldRecord(c)>>
  /\ auto_merge = TRUE
  /\ exact_threshold = 9500
  /\ review_threshold = 8500
  /\ min_threshold = 7000
  /\ pc = "operands"
  /\ matches = <<>>
  /\ scored = <<>>
  /\ next_match = 1
  /\ merge_groups = <<>>
  /\ next_member = 1
  /\ merged_companies = <<>>
  /\ result_companies = <<>>

\* merge_companies(merge_companies(a, b), c)
MergeLeft ==
  /\ pc = "operands"
  /\ result_companies' =
       <<merge_companies(merge_companies(companies[1], companies[2]), companies[3])>>
  /\ pc' = "left"
  /\ UNCHANGED <<input, matches, scored, next_match, merge_groups, next_member,
                 merged_companies>>

\* merge_companies(a, merge_companies(b, c))
MergeRight ==
  /\ pc = "left"
  /\ result_companies' =
       Append(result_companies,
              merge_companies(companies[1], merge_companies(companies[2], companies[3])))
  /\ pc' = "right"
  /\ UNCHANGED <<input, matches, scored, next_match, merge_groups, next_member,
                 merged_companies>>

FoldNext ==
  \/ MergeLeft
  \/ MergeRight

FoldSpec == FoldInit /\ [][FoldNext]_vars

\* C21: confidence averaging in merge_companies is associative: the
\* confidence_score of merge(merge(a, b), c) equals that of
\* merge(a, merge(b, c)).
C21_ConfidenceAssociative ==
  pc = "right" =>
    result_companies[1].confidence_score = result_companies[2].confidence_score

\* ------------------------------------------------- records and references
\* The ids that merge_groups maps to group_id.
GroupMembers(group_id) ==
  {merge_groups[k].key : k \in {j \in 1..Len(merge_groups) : merge_groups[j].value = group_id}}

\* merged_companies[group_id] is the object company_index[company_id] itself:
\* the loop took the first branch for the group's first id and never called
\* merge_companies, whose deep copy is what makes a new record.
MergedByReference(group_id) == Cardinality(GroupMembers(group_id)) = 1

PairInit ==
  /\ blocking_keys = [k \in 1..Len(Records) |-> create_blocking_key(Signals(Records[k]))]
  /\ similarities =
       [k1 \in 1..Len(Records) |->
          [k2 \in 1..Len(Records) |->
             calculate_company_similarity(Signals(Records[k1]), Signals(Records[k2]))]]
  /\ \E company1 \in PairCatalogue, company2 \in PairCatalogue, ids \in {"none", "all"} :
       companies = InputList(<<company1, company2>>, ids)
  /\ auto_merge = TRUE
  /\ exact_threshold = 9500
  /\ review_threshold = 8500
  /\ min_threshold = 7000
  /\ pc = "start"
  /\ matches = <<>>
  /\ scored = <<>>
  /\ next_match = 1
  /\ merge_groups = <<>>
  /\ next_member = 1
  /\ merged_companies = <<>>
  /\ result_companies = <<>>

PairSpec == PairInit /\ [][FindDuplicates]_vars

\* The phones of a record, each as normalize_phone returns it.
NormalizedPhones(company) ==
  IF company.contacts = <<>> THEN {}
  ELSE {normalize_phone(phone) : phone \in Range(company.contacts[1].phones_public)}

SamePhone(company1, company2) ==
  NormalizedPhones(company1) \cap NormalizedPhones(company2) # {}

\* Both records have a website, and the two are on different domains.
DomainsDiffer(company1, company2) ==
  /\ HasWebsite(company1) /\ HasWebsite(company2)
  /\ Domain(company1.web_presence[1].website_url)
       # Domain(company2.web_presence[1].website_url)

\* C23: two records with a common phone number (after normalization) and
\* different website domains: find_duplicates, with the default thresholds,
\* returns exactly one match, and its phone field score is 1.0.
C23_PhoneMatchAcrossDomains ==
  (pc = "found" /\ SamePhone(companies[1], companies[2])
                /\ DomainsDiffer(companies[1], companies[2]))
    => /\ Len(matches) = 1
       /\ matches[1].match_fields.phone = 100

\* The two records describe one company: the same website host up to the
\* scheme and "www.", a common phone up to formatting, the same name up to
\* the legal-form suffix, and the city once as "İstanbul", once as "Istanbul".
SameCompany(company1, company2) ==
  /\ HasWebsite(company1) /\ HasWebsite(company2)
  /\ Domain(company1.web_presence[1].website_url)
       = Domain(company2.web_presence[1].website_url)
  /\ SamePhone(company1, company2)
  /\ normalize_company_name(company1.identity.legal_name)
       = normalize_company_name(company2.identity.legal_name)
  /\ {company1.identity.city, company2.identity.city} = {CityDotted, CityPlain}

\* C24: two raw records that describe the same company, the city written
\* "İstanbul" in one and "Istanbul" in the other, are in the same blocking
\* bucket, and find_duplicates returns exactly one match for them, with a
\* match_score of at least review_threshold (0.85).
C24_SameCompanyMatched ==
  (pc = "found" /\ SameCompany(companies[1], companies[2]))
    => /\ BlockingKeyOf(companies[1]) = BlockingKeyOf(companies[2])
       /\ Len(matches) = 1
       /\ matches[1].match_score >= review_threshold

\* C25: whenever find_duplicates emits a match with match_score >=
\* exact_threshold that is not flagged for review, resolve_duplicates with
\* auto_merge returns strictly fewer records than it was given.
C25_MergeShrinks ==
  (pc = "done" /\ auto_merge /\ \E k \in 1..Len(matches) : Qualifies(matches[k]))
    => Len(result_companies) < Len(companies)

\* A call that merged: it was given four records with a qualifying match
\* among them and returns fewer.
C25_Witness ==
  /\ pc = "done" /\ auto_merge
  /\ \E k \in 1..Len(matches) : Qualifies(matches[k])
  /\ Len(companies) = 4
  /\ Len(result_companies) \in 1..3

\* ------------------------------------------------------------ phone runs
MaxPhoneLen == 4

PhoneChars == {"0", "9", "5", "-", "+"}

\* The phones of test_phone_normalization.
TestPhones == {
  <<"0","2","1","2"," ","3","4","5"," ","6","7"," ","8","9">>,
  <<"+","9","0"," ","(","2","1","2",")"," ","3","4","5","-","6","7","8","9">>,
  <<"0","2","1","2","3","4","5","6","7","8","9">>,
  <<"5","5","5","1","2","3","4","5","6","7">>,
  <<"+","9","0","5","5","5","1","2","3","4","5","6","7">>}

\* The non-empty phones normalize_phone is given: every string of up to
\* MaxPhoneLen characters of PhoneChars, and the phones of the test.
Phones ==
  TestPhones \cup UNION {[1..n -> PhoneChars] : n \in 1..MaxPhoneLen}

\* A record with one phone, and that phone.
PhoneRecord(phone) == Company(<<>>, <<>>, <<>>, <<phone>>, <<>>)

PhoneOf(company) == company.contacts[1].phones_public[1]

\* A phone is given to normalize_phone: companies holds it, and
\* result_companies will hold what the calls return.
PhoneInit ==
  /\ blocking_keys = <<>>
  /\ similarities = <<>>
  /\ \E phone \in Phones : companies = <<PhoneRecord(phone)>>
  /\ auto_merge = FALSE
  /\ exact_threshold = 9500
  /\ review_threshold = 8500
  /\ min_threshold = 7000
  /\ pc = "phone"
  /\ matches = <<>>
  /\ scored = <<>>
  /\ next_match = 1
  /\ merge_groups = <<>>
  /\ next_member = 1
  /\ merged_companies = <<>>
  /\ result_companies = <<>>

\* normalize_phone(phone)
NormalizePhone ==
  /\ pc = "phone"
  /\ result_companies' = <<PhoneRecord(normalize_phone(PhoneOf(companies[1])))>>
  /\ pc' = "normalized"
  /\ UNCHANGED <<input, matches, scored, next_match, merge_groups, next_member,
                 merged_companies>>

\* normalize_phone on what the first call returned.
NormalizePhoneAgain ==
  /\ pc = "normalized"
  /\ result_companies' =
       Append(result_companies,
              PhoneRecord(normalize_phone(PhoneOf(result_companies[1]))))
  /\ pc' = "renormalized"
  /\ UNCHANGED <<input, matches, scored, next_match, merge_groups, next_member,
                 merged_companies>>

PhoneNext ==
  \/ NormalizePhone
  \/ NormalizePhoneAgain

PhoneSpec == PhoneInit /\ [][PhoneNext]_vars

\* The digits of the phone given, in order.
DigitString == SelectSeq(PhoneOf(companies[1]), IsDigit)

\* C26: for a non-empty phone with digit string D, normalize_phone returns
\* "+" and D when D starts with "90", "+90" and D without its first digit
\* when D starts with "0", and "+90" and D otherwise; the result starts with
\* "+90", and normalize_phone returns it unchanged.
C26_PhoneRules ==
  pc \in {"normalized", "renormalized"} =>
    LET D == DigitString
        result == PhoneOf(result_companies[1])
    IN /\ result = IF StartsWith(D, <<"9", "0">>) THEN <<"+">> \o D
                   ELSE IF StartsWith(D, <<"0">>) THEN <<"+", "9", "0">> \o Tail(D)
                   ELSE <<"+", "9", "0">> \o D
       /\ StartsWith(result, <<"+", "9", "0">>)
       /\ pc = "renormalized" => PhoneOf(result_companies[2]) = result

\* A phone with a leading "0" and separators went through both calls.
C26_Witness ==
  /\ pc = "renormalized"
  /\ StartsWith(DigitString, <<"0">>)
  /\ Len(DigitString) < Len(PhoneOf(companies[1]))
  /\ PhoneOf(result_companies[2]) = <<"+", "9", "0">> \o Tail(DigitString)

\* The entries of a contact list that can be parsed: a phone with a digit,
\* an email with an "@" and a "." after it.
ParseablePhone(phone) == \E k \in 1..Len(phone) : IsDigit(phone[k])

ParseableEmail(email) ==
  \E k \in 1..Len(email) :
    email[k] = "@" /\ \E j \in (k + 1)..Len(email) : email[j] = "."

\* C27: normalize_company removes the contact entries that cannot be
\* parsed: the normalized phone list has one entry for each phone with a
\* digit and none for a phone without, the normalized email list one entry
\* for each email with an "@" and a "." after it and none for the others.
C27_UnparseableRemoved ==
  (pc \in {"normalized", "renormalized"} /\ companies[1].contacts # <<>>) =>
    LET given == companies[1].contacts[1]
        kept == result_companies[1].contacts[1]
    IN /\ Len(kept.phones_public) = Len(SelectSeq(given.phones_public, ParseablePhone))
       /\ Len(kept.emails_public) = Len(SelectSeq(given.emails_public, ParseableEmail))

\* ------------------------------------------------------------- name runs
MaxNameLen == 3

NameChars == {"I", UI, "A", US, "1", " "}

\* The names normalize_for_matching is given.
Names == UNION {[1..n -> NameChars] : n \in 1..MaxNameLen}

\* A record with a name, and that name.
NameRecord(legal_name) == Company(legal_name, <<>>, <<>>, <<>>, <<>>)

\* A name is given to normalize_for_matching: companies holds it, and
\* result_companies will hold what the call returns.
NameInit ==
  /\ blocking_keys = <<>>
  /\ similarities = <<>>
  /\ \E legal_name \in Names : companies = <<NameRecord(legal_name)>>
  /\ auto_merge = FALSE
  /\ exact_threshold = 9500
  /\ review_threshold = 8500
  /\ min_threshold = 7000
  /\ pc = "name"
  /\ matches = <<>>
  /\ scored = <<>>
  /\ next_match = 1
  /\ merge_groups = <<>>
  /\ next_member = 1
  /\ merged_companies = <<>>
  /\ result_companies = <<>>

\* normalize_for_matching(name)
NormalizeForMatching ==
  /\ pc = "name"
  /\ result_companies' =
       <<NameRecord(normalize_for_matching(companies[1].identity.legal_name))>>
  /\ pc' = "matching"
  /\ UNCHANGED <<input, matches, scored, next_match, merge_groups, next_member,
                 merged_companies>>

NameSpec == NameInit /\ [][NormalizeForMatching]_vars

\* The ASCII counterpart turkish_chars gives a Turkish letter; any other
\* character is left as it is.
AsciiCounterpart(c) ==
  IF \E k \in 1..Len(turkish_chars) : turkish_chars[k][1] = c
  THEN turkish_chars[CHOOSE k \in 1..Len(turkish_chars) : turkish_chars[k][1] = c][2]
  ELSE c

\* C28: normalize_for_matching(name) is the canonical form of the name with
\* each Turkish letter replaced by its ASCII counterpart and every character
\* other than A-Z and 0-9 removed, so every ASCII letter (plain "I" too) and
\* every digit of the canonical name is kept, in order.
C28_MatchingForm ==
  pc = "matching" =>
    LET canonical == normalize_company_name(companies[1].identity.legal_name)
        ascii == [k \in 1..Len(canonical) |-> AsciiCounterpart(canonical[k])]
    IN result_companies[1].identity.legal_name = SelectSeq(ascii, IsAZ09)

\* The unordered pair of positions of an entry of scored.
PairKey(entry) == {entry.idx1, entry.idx2}

\* C29: in one run of find_duplicates every unordered pair of positions is
\* scored at most once: no two entries of scored are for the same pair, so
\* the match list, which has at most one match per scored pair, never holds
\* two candidates for one pair.
C29_PairsScoredOnce ==
  /\ \A k1 \in 1..Len(scored), k2 \in 1..Len(scored) :
       k1 # k2 => PairKey(scored[k1]) # PairKey(scored[k2])
  /\ Len(matches) <= Len(scored)

\* Four records of one bucket: all six pairs were scored, and several
\* matches emitted.
C29_Witness ==
  /\ pc = "found"
  /\ Len(scored) = 6
  /\ Len(matches) >= 2

\* C30: resolve_duplicates conserves records, also when an assigned id
\* equals another record's position: when the call returns, every input
\* record is in exactly one output record, either passed through unchanged
\* or as an operand of the fold of one canonical record.
C30_RecordsConserved ==
  pc = "done" =>
    \A i \in Positions :
      /\ Cardinality({k \in 1..Len(result_companies) : i \in Folded(k)}) = 1
      /\ \A k \in 1..Len(result_companies) :
           Folded(k) = {i} => result_companies[k] = companies[i + 1]
====
